---- MODULE Spec2Model ----
(***************************************************************************)
(* TEx 1.0.2, a terminal text editor: the row store, the cursor, the       *)
(* viewport, key dispatch, the save-as prompt and file persistence.        *)
(* The global `struct texConfig conf` is the record variable conf; every C *)
(* function that changes it is an operator from conf to conf, composed as  *)
(* the C code composes the calls.  Bytes are their numeric values.         *)
(***************************************************************************)
EXTENDS Integers, Sequences, FiniteSets, TLC

(* ---- bounds of the model ---- *)
\* number of keys read from the terminal in one run
MaxKeys == 4

(* ---- program constants ---- *)
TABS_TO_SPACES == 8
FORCE_QUIT == 2
BKSP_KEY == 127
ARR_UP == 1000
ARR_DOWN == 1001
ARR_LEFT == 1002
ARR_RIGHT == 1003
PAGE_UP == 1004
PAGE_DOWN == 1005
HOME_KEY == 1006
END_KEY == 1007
DEL_KEY == 1008
CTRL_Q == 17
CTRL_S == 19
CTRL_H == 8
CTRL_L == 12
ESC == 27
ENTER == 13
TAB == 9
LF == 10
CR == 13
SP == 32
NUL == 0

\* file_name == NULL
NoName == <<>>

(* ---- the clock ---- *)
VARIABLE now       \* what time(NULL) returns: seconds since the program started

(* ---- status messages: format string and its arguments ---- *)
MsgNone == [fmt |-> "", arg |-> <<>>]
MsgHelp == [fmt |-> "HELP: Ctrl-S to save | Ctrl-Q to quit", arg |-> <<>>]
MsgWarn(n) ==
    [fmt |-> "WARNING ! File has unsaved changes. Press Ctrl-Q again (%d) to confirm quit",
     arg |-> <<n>>]
MsgPrompt(buf) == [fmt |-> "Save as: %s (<ESC> to cancel)", arg |-> buf]
MsgCancelled == [fmt |-> "Save cancelled", arg |-> <<>>]
MsgWritten(n) == [fmt |-> "%d bytes written to file", arg |-> <<n>>]
MsgIOError == [fmt |-> "Cannot save ! I/O Error: %s", arg |-> <<>>]

\* vsnprintf(conf.stt_msg, ...); conf.msg_time = time(NULL)
texSetStatusMessage(c, msg) == [c EXCEPT !.stt_msg = msg, !.msg_time = now]

(* ---- sequences ---- *)
InsertAt(s, at, e) == SubSeq(s, 1, at) \o <<e>> \o SubSeq(s, at + 1, Len(s))
RemoveAt(s, at) == SubSeq(s, 1, at) \o SubSeq(s, at + 2, Len(s))

(* ---- rows ---- *)
\* the second loop of editorUpdateRow: i is the index into chars, out the
\* render written so far, idx the write position
RECURSIVE UpdateLoop(_, _, _, _, _)
UpdateLoop(chars, size, i, out, idx) ==
    IF i >= size THEN [render |-> out, idx |-> idx]
    ELSE IF chars[i + 1] = TAB
         THEN LET pad == IF (idx + 1) % TABS_TO_SPACES = 0 THEN 0
                         ELSE TABS_TO_SPACES - ((idx + 1) % TABS_TO_SPACES)
              IN  UpdateLoop(chars, size, i + 1,
                             out \o [k \in 1..(1 + pad) |-> SP], idx + 1 + pad)
         ELSE UpdateLoop(chars, size, i + 1, out \o <<chars[i + 1]>>, idx + 1)

editorUpdateRow(row) ==
    LET r == UpdateLoop(row.chars, row.size, 0, <<>>, 0)
    IN  [row EXCEPT !.render = r.render, !.ren_sz = r.idx]

RECURSIVE utilCur2RenLoop(_, _, _, _)
utilCur2RenLoop(row, cur_x, i, ren_x) ==
    IF i >= cur_x THEN ren_x
    ELSE LET r == IF row.chars[i + 1] = TAB
                  THEN ren_x + (TABS_TO_SPACES - 1) - (ren_x % TABS_TO_SPACES)
                  ELSE ren_x
         IN  utilCur2RenLoop(row, cur_x, i + 1, r + 1)

\* utilCur2Ren counting a tab as one column
utilCur2Ren_TabIsOne(row, cur_x) == cur_x

utilCur2Ren(row, cur_x) == utilCur2RenLoop(row, cur_x, 0, 0)

\* rows are indexed from 0 in the program: row y is c.row[y + 1]
RowAt(c, y) == c.row[y + 1]

editorAppendChar(c, at, s) ==
    IF at < 0 \/ at > c.n_rows THEN c
    ELSE LET new == editorUpdateRow([size |-> Len(s), chars |-> s,
                                     ren_sz |-> 0, render |-> <<>>])
         IN  [c EXCEPT !.row = InsertAt(c.row, at, new),
                       !.n_rows = c.n_rows + 1,
                       !.mod = c.mod + 1]

\* editorAppendString without editorUpdateRow(row)
editorAppendString_NoUpdate(c, y, s) ==
    LET row == RowAt(c, y)
        grown == [row EXCEPT !.chars = SubSeq(row.chars, 1, row.size) \o s,
                             !.size = row.size + Len(s)]
    IN  [c EXCEPT !.row[y + 1] = grown, !.mod = c.mod + 1]

editorAppendString(c, y, s) ==
    LET row == RowAt(c, y)
        grown == [row EXCEPT !.chars = SubSeq(row.chars, 1, row.size) \o s,
                             !.size = row.size + Len(s)]
    IN  [c EXCEPT !.row[y + 1] = editorUpdateRow(grown), !.mod = c.mod + 1]

editorRemoveRow(c, at) ==
    IF at < 0 \/ at >= c.n_rows THEN c
    ELSE [c EXCEPT !.row = RemoveAt(c.row, at),
                   !.n_rows = c.n_rows - 1,
                   !.mod = c.mod + 1]

\* utilCharInsert without conf.mod++
utilCharInsert_NoMod(c, y, at0, ch) ==
    LET row == RowAt(c, y)
        at == IF at0 < 0 \/ at0 > row.size THEN row.size ELSE at0
        grown == [row EXCEPT !.chars = InsertAt(SubSeq(row.chars, 1, row.size), at, ch % 256),
                             !.size = row.size + 1]
    IN  [c EXCEPT !.row[y + 1] = editorUpdateRow(grown)]

utilCharInsert(c, y, at0, ch) ==
    LET row == RowAt(c, y)
        at == IF at0 < 0 \/ at0 > row.size THEN row.size ELSE at0
        \* row->chars[at] = c converts the int c to a char: the byte c mod 256
        grown == [row EXCEPT !.chars = InsertAt(SubSeq(row.chars, 1, row.size), at, ch % 256),
                             !.size = row.size + 1]
    IN  [c EXCEPT !.row[y + 1] = editorUpdateRow(grown), !.mod = c.mod + 1]

\* utilCharDel without the call of editorUpdateRow
utilCharDel_NoUpdate(c, y, at) ==
    LET row == RowAt(c, y)
    IN  IF at < 0 \/ at > row.size THEN c
        ELSE LET shrunk == [row EXCEPT
                     !.chars = SubSeq(RemoveAt(SubSeq(row.chars, 1, row.size), at),
                                      1, row.size - 1),
                     !.size = row.size - 1]
             IN  [c EXCEPT !.row[y + 1] = shrunk, !.mod = c.mod + 1]

utilCharDel(c, y, at) ==
    LET row == RowAt(c, y)
    IN  IF at < 0 \/ at > row.size THEN c
        ELSE LET shrunk == [row EXCEPT
                     !.chars = SubSeq(RemoveAt(SubSeq(row.chars, 1, row.size), at),
                                      1, row.size - 1),
                     !.size = row.size - 1]
             IN  [c EXCEPT !.row[y + 1] = editorUpdateRow(shrunk), !.mod = c.mod + 1]

(* ---- editing at the cursor ---- *)
\* editorInsertNewLine without editorUpdateRow on the truncated row
\* editorInsertNewLine leaving row cur_y whole when it splits
editorInsertNewLine_KeepsTail(c) ==
    LET c1 == IF c.cur_x = 0
              THEN editorAppendChar(c, c.cur_y, <<>>)
              ELSE LET row == RowAt(c, c.cur_y)
                   IN  editorAppendChar(c, c.cur_y + 1,
                           SubSeq(row.chars, c.cur_x + 1, row.size))
    IN  [c1 EXCEPT !.cur_y = c.cur_y + 1, !.cur_x = 0]

editorInsertNewLine_StaleRender(c) ==
    LET c1 == IF c.cur_x = 0
              THEN editorAppendChar(c, c.cur_y, <<>>)
              ELSE LET row == RowAt(c, c.cur_y)
                       c2 == editorAppendChar(c, c.cur_y + 1,
                                 SubSeq(row.chars, c.cur_x + 1, row.size))
                       old == RowAt(c2, c.cur_y)
                       cut == [old EXCEPT !.size = c.cur_x,
                                          !.chars = SubSeq(old.chars, 1, c.cur_x)]
                   IN  [c2 EXCEPT !.row[c.cur_y + 1] = cut]
    IN  [c1 EXCEPT !.cur_y = c.cur_y + 1, !.cur_x = 0]

editorInsertNewLine(c) ==
    LET c1 == IF c.cur_x = 0
              THEN editorAppendChar(c, c.cur_y, <<>>)
              ELSE LET row == RowAt(c, c.cur_y)
                       c2 == editorAppendChar(c, c.cur_y + 1,
                                 SubSeq(row.chars, c.cur_x + 1, row.size))
                       old == RowAt(c2, c.cur_y)
                       cut == [old EXCEPT !.size = c.cur_x,
                                          !.chars = SubSeq(old.chars, 1, c.cur_x)]
                   IN  [c2 EXCEPT !.row[c.cur_y + 1] = editorUpdateRow(cut)]
    IN  [c1 EXCEPT !.cur_y = c.cur_y + 1, !.cur_x = 0]

\* editorInputChar without ++conf.cur_x
editorInputChar_NoAdvance(c, ch) ==
    LET c1 == IF c.cur_y = c.n_rows THEN editorAppendChar(c, c.n_rows, <<>>) ELSE c
    IN  utilCharInsert(c1, c1.cur_y, c1.cur_x, ch)

editorInputChar(c, ch) ==
    LET c1 == IF c.cur_y = c.n_rows THEN editorAppendChar(c, c.n_rows, <<>>) ELSE c
        c2 == utilCharInsert(c1, c1.cur_y, c1.cur_x, ch)
    IN  [c2 EXCEPT !.cur_x = c2.cur_x + 1]

\* editorRemoveChar reading the size of row cur_y - 1 after the join
editorRemoveChar_CursorAfterJoin(c) ==
    IF c.cur_y = c.n_rows THEN c
    ELSE IF c.cur_x = 0 /\ c.cur_y = 0 THEN c
    ELSE IF c.cur_x > 0
         THEN LET c1 == utilCharDel(c, c.cur_y, c.cur_x - 1)
              IN  [c1 EXCEPT !.cur_x = c.cur_x - 1]
         ELSE LET row == RowAt(c, c.cur_y)
                  c2 == editorAppendString(c, c.cur_y - 1, SubSeq(row.chars, 1, row.size))
                  c3 == editorRemoveRow(c2, c.cur_y)
              IN  [c3 EXCEPT !.cur_y = c.cur_y - 1,
                             !.cur_x = RowAt(c2, c.cur_y - 1).size]

\* editorRemoveChar without the return at the start of the document: Backspace
\* at (0, 0) removes row 0
editorRemoveChar_NoOriginGuard(c) ==
    IF c.cur_y = c.n_rows THEN c
    ELSE IF c.cur_x = 0 /\ c.cur_y = 0 THEN editorRemoveRow(c, 0)
    ELSE IF c.cur_x > 0
         THEN LET c1 == utilCharDel(c, c.cur_y, c.cur_x - 1)
              IN  [c1 EXCEPT !.cur_x = c.cur_x - 1]
         ELSE LET row == RowAt(c, c.cur_y)
                  c1 == [c EXCEPT !.cur_x = RowAt(c, c.cur_y - 1).size]
                  c2 == editorAppendString(c1, c.cur_y - 1, SubSeq(row.chars, 1, row.size))
                  c3 == editorRemoveRow(c2, c.cur_y)
              IN  [c3 EXCEPT !.cur_y = c.cur_y - 1]

editorRemoveChar(c) ==
    IF c.cur_y = c.n_rows THEN c
    ELSE IF c.cur_x = 0 /\ c.cur_y = 0 THEN c
    ELSE IF c.cur_x > 0
         THEN LET c1 == utilCharDel(c, c.cur_y, c.cur_x - 1)
              IN  [c1 EXCEPT !.cur_x = c.cur_x - 1]
         ELSE LET row == RowAt(c, c.cur_y)
                  c1 == [c EXCEPT !.cur_x = RowAt(c, c.cur_y - 1).size]
                  c2 == editorAppendString(c1, c.cur_y - 1, SubSeq(row.chars, 1, row.size))
                  c3 == editorRemoveRow(c2, c.cur_y)
              IN  [c3 EXCEPT !.cur_y = c.cur_y - 1]

(* ---- cursor ---- *)
\* the switch of texNavCursor with ARR_RIGHT stopping at the end of a row
NavMove_NoWrap(c, key) ==
    LET hasRow == c.cur_y < c.n_rows
    IN  CASE key = ARR_UP ->
               IF c.cur_y # 0 THEN [c EXCEPT !.cur_y = c.cur_y - 1] ELSE c
          [] key = ARR_DOWN ->
               IF c.cur_y < c.n_rows THEN [c EXCEPT !.cur_y = c.cur_y + 1] ELSE c
          [] key = ARR_LEFT ->
               IF c.cur_x # 0 THEN [c EXCEPT !.cur_x = c.cur_x - 1]
               ELSE IF c.cur_y > 0
                    THEN [c EXCEPT !.cur_y = c.cur_y - 1,
                                   !.cur_x = RowAt(c, c.cur_y - 1).size]
                    ELSE c
          [] key = ARR_RIGHT ->
               IF hasRow /\ c.cur_x < RowAt(c, c.cur_y).size
               THEN [c EXCEPT !.cur_x = c.cur_x + 1]
               ELSE c
          [] OTHER -> c

\* the switch of texNavCursor
NavMove(c, key) ==
    LET hasRow == c.cur_y < c.n_rows
    IN  CASE key = ARR_UP ->
               IF c.cur_y # 0 THEN [c EXCEPT !.cur_y = c.cur_y - 1] ELSE c
          [] key = ARR_DOWN ->
               IF c.cur_y < c.n_rows THEN [c EXCEPT !.cur_y = c.cur_y + 1] ELSE c
          [] key = ARR_LEFT ->
               IF c.cur_x # 0 THEN [c EXCEPT !.cur_x = c.cur_x - 1]
               ELSE IF c.cur_y > 0
                    THEN [c EXCEPT !.cur_y = c.cur_y - 1,
                                   !.cur_x = RowAt(c, c.cur_y - 1).size]
                    ELSE c
          [] key = ARR_RIGHT ->
               IF hasRow /\ c.cur_x < RowAt(c, c.cur_y).size
               THEN [c EXCEPT !.cur_x = c.cur_x + 1]
               ELSE IF hasRow /\ c.cur_x = RowAt(c, c.cur_y).size
                    THEN [c EXCEPT !.cur_y = c.cur_y + 1, !.cur_x = 0]
                    ELSE c
          [] OTHER -> c

\* texNavCursor clamping cur_x to the row the cursor was on before the switch
texNavCursor_ClampToOldRow(c, key) ==
    LET c1 == NavMove(c, key)
        row_len == IF c.cur_y >= c.n_rows THEN 0 ELSE RowAt(c, c.cur_y).size
    IN  IF c1.cur_x > row_len THEN [c1 EXCEPT !.cur_x = row_len] ELSE c1

\* texNavCursor without the clamp of cur_x that follows the switch
texNavCursor_NoClamp(c, key) == NavMove(c, key)

texNavCursor(c, key) ==
    LET c1 == NavMove(c, key)
        row_len == IF c1.cur_y >= c1.n_rows THEN 0 ELSE RowAt(c1, c1.cur_y).size
    IN  IF c1.cur_x > row_len THEN [c1 EXCEPT !.cur_x = row_len] ELSE c1

\* while (--times) texNavCursor(key), entered with times - 1 == k >= 0
RECURSIVE RepeatNav(_, _, _)
RepeatNav(c, key, k) ==
    IF k <= 0 THEN c ELSE RepeatNav(texNavCursor(c, key), key, k - 1)

\* the PAGE_UP / PAGE_DOWN case stepping dispRows times (while (times--))
PageKey_FullPage(c, key) ==
    LET c1 == IF key = PAGE_UP
              THEN [c EXCEPT !.cur_y = c.off_row]
              ELSE LET y == c.off_row + c.dispRows - 1
                   IN  [c EXCEPT !.cur_y = IF y > c.n_rows THEN c.n_rows ELSE y]
    IN  RepeatNav(c1, IF key = PAGE_UP THEN ARR_UP ELSE ARR_DOWN, c.dispRows)

PageKey(c, key) ==
    LET c1 == IF key = PAGE_UP
              THEN [c EXCEPT !.cur_y = c.off_row]
              ELSE LET y == c.off_row + c.dispRows - 1
                   IN  [c EXCEPT !.cur_y = IF y > c.n_rows THEN c.n_rows ELSE y]
    IN  RepeatNav(c1, IF key = PAGE_UP THEN ARR_UP ELSE ARR_DOWN, c.dispRows - 1)

HomeKey(c) == [c EXCEPT !.cur_x = 0]

\* the case of END_KEY without its break, falling into the case of BKSP_KEY
EndKey_FallsThrough(c) ==
    editorRemoveChar(IF c.cur_y < c.n_rows THEN [c EXCEPT !.cur_x = RowAt(c, c.cur_y).size] ELSE c)

EndKey(c) ==
    IF c.cur_y < c.n_rows THEN [c EXCEPT !.cur_x = RowAt(c, c.cur_y).size] ELSE c

RemoveKey(c, key) ==
    editorRemoveChar(IF key = DEL_KEY THEN texNavCursor(c, ARR_RIGHT) ELSE c)

(* ---- viewport ---- *)
\* editorScroll scrolling down one row short
editorScroll_OffByOne(c) ==
    LET rx == IF c.cur_y < c.n_rows THEN utilCur2Ren(RowAt(c, c.cur_y), c.cur_x) ELSE 0
        r1 == IF c.cur_y < c.off_row THEN c.cur_y ELSE c.off_row
        r2 == IF c.cur_y >= r1 + c.dispRows THEN c.cur_y - c.dispRows ELSE r1
        c1 == IF rx < c.off_col THEN rx ELSE c.off_col
        c2 == IF rx >= c1 + c.dispCols THEN rx - c.dispCols + 1 ELSE c1
    IN  [c EXCEPT !.ren_x = rx, !.off_row = r2, !.off_col = c2]

\* editorScroll bringing a cursor below the window to the top of the window
editorScroll_ToTop(c) ==
    LET rx == IF c.cur_y < c.n_rows THEN utilCur2Ren(RowAt(c, c.cur_y), c.cur_x) ELSE 0
        r1 == IF c.cur_y < c.off_row THEN c.cur_y ELSE c.off_row
        r2 == IF c.cur_y >= r1 + c.dispRows THEN c.cur_y ELSE r1
        c1 == IF rx < c.off_col THEN rx ELSE c.off_col
        c2 == IF rx >= c1 + c.dispCols THEN rx - c.dispCols + 1 ELSE c1
    IN  [c EXCEPT !.ren_x = rx, !.off_row = r2, !.off_col = c2]

editorScroll(c) ==
    LET rx == IF c.cur_y < c.n_rows THEN utilCur2Ren(RowAt(c, c.cur_y), c.cur_x) ELSE 0
        r1 == IF c.cur_y < c.off_row THEN c.cur_y ELSE c.off_row
        r2 == IF c.cur_y >= r1 + c.dispRows THEN c.cur_y - c.dispRows + 1 ELSE r1
        c1 == IF rx < c.off_col THEN rx ELSE c.off_col
        c2 == IF rx >= c1 + c.dispCols THEN rx - c.dispCols + 1 ELSE c1
    IN  [c EXCEPT !.ren_x = rx, !.off_row = r2, !.off_col = c2]

\* texDispRefresh: the part that changes conf
texDispRefresh(c) == editorScroll(c)

(* ---- the frame texDispRefresh writes ---- *)
\* the output buffer is a sequence of tokens: an escape sequence with its
\* arguments, or a run of bytes
Tok(name, arg) == [seq |-> name, arg |-> arg]
Text(bytes) == Tok("text", bytes)
CursorHide == Tok("ESC[?25l", <<>>)
CursorHome == Tok("ESC[H", <<>>)
CursorShow == Tok("ESC[?25h", <<>>)
EraseLine == Tok("ESC[K", <<>>)
LineBreak == Tok("CR LF", <<>>)
InverseOn == Tok("ESC[7m", <<>>)
InverseOff == Tok("ESC[m", <<>>)
CursorPosition(r, col) == Tok("ESC[%d;%dH", <<r, col>>)
\* the spaces of a banner row whose padding loop counts down from below 1:
\* while (--padding) then runs until the int wraps, appending a space each
\* time. The call either does not return or returns with the buffer stuck:
\* abuf->len is an int and passes INT_MAX on the way, after which realloc is
\* asked for a size it cannot give and memBufAppend drops every append
Runaway == Tok("while(--padding)", <<>>)

TEx_VERSION_LAYOUT == 3
\* "TEx Editor -- Version 1.0.2", the two dashes being U+2013 in UTF-8
wlcMsg ==
    <<84, 69, 120, 32, 69, 100, 105, 116, 111, 114, 32, 226, 128, 147, 226, 128, 147,
      32, 86, 101, 114, 115, 105, 111, 110, 32, 49, 46, 48, 46, 50>>

Spaces(n) == [k \in 1..n |-> SP]

\* the banner branch of texDrawLine
Banner(c) ==
    LET wlcLen == IF Len(wlcMsg) > c.dispCols THEN c.dispCols ELSE Len(wlcMsg)
        padding == (c.dispCols - wlcLen) \div 2
        tilde == IF padding # 0 THEN <<126>> ELSE <<>>
        left == IF padding # 0 THEN padding - 1 ELSE padding
    IN  IF left >= 1
        THEN Text(tilde \o Spaces(left - 1) \o SubSeq(wlcMsg, 1, wlcLen))
        ELSE Runaway

\* what texDrawLine appends for display row i before "\x1b[K" and "\r\n"
DisplayRow(c, i) ==
    LET fp_row == i + c.off_row
    IN  IF fp_row >= c.n_rows
        THEN IF c.n_rows = 0 /\ i = c.dispRows \div TEx_VERSION_LAYOUT
             THEN Banner(c)
             ELSE Text(<<126>>)
        ELSE LET row == RowAt(c, fp_row)
                 len0 == row.ren_sz - c.off_col
                 len1 == IF len0 < 0 THEN 0 ELSE len0
                 len == IF len1 > c.dispCols THEN c.dispCols ELSE len1
             IN  Text(SubSeq(row.render, c.off_col + 1, c.off_col + len))

RECURSIVE DrawLineLoop(_, _)
DrawLineLoop(c, i) ==
    IF i >= c.dispRows THEN <<>>
    ELSE <<DisplayRow(c, i), EraseLine, LineBreak>> \o DrawLineLoop(c, i + 1)

texDrawLine(c) == DrawLineLoop(c, 0)

\* "%d" of a number that is not negative
RECURSIVE Decimal(_)
Decimal(n) == IF n < 10 THEN <<48 + n>> ELSE Decimal(n \div 10) \o <<48 + (n % 10)>>

\* the loop of texDrawStatusBar that fills the bar from column len on
RECURSIVE StatusFill(_, _, _)
StatusFill(len, dispCols, cur_stt) ==
    IF len >= dispCols THEN <<>>
    ELSE IF dispCols - len = Len(cur_stt) THEN cur_stt
    ELSE <<SP>> \o StatusFill(len + 1, dispCols, cur_stt)

texDrawStatusBar(c) ==
    LET name == IF c.file_name = NoName THEN <<91, 78, 111, 32, 78, 97, 109, 101, 93>>
                ELSE SubSeq(c.file_name, 1, IF Len(c.file_name) > 20 THEN 20 ELSE Len(c.file_name))
        stt == name \o <<32, 45, 32>> \o Decimal(c.n_rows) \o <<32, 108, 105, 110, 101, 115, 32>>
               \o (IF c.mod # 0 THEN <<40, 109, 111, 100, 105, 102, 105, 101, 100, 41>> ELSE <<>>)
        cur_stt == Decimal(c.cur_y + 1) \o <<47>> \o Decimal(c.n_rows)
        len == IF Len(stt) > c.dispCols THEN c.dispCols ELSE Len(stt)
    IN  <<InverseOn, Text(SubSeq(stt, 1, len) \o StatusFill(len, c.dispCols, cur_stt)),
          InverseOff, LineBreak>>

\* the test of texDrawStatusMsg on the age of the message, one second too long
IsFresh_Inclusive(c) == now - c.msg_time <= 5

\* (time(NULL) - conf.msg_time) < 5
IsFresh(c) == now - c.msg_time < 5

\* fresh: time(NULL) - conf.msg_time < 5; the message is cut to dispCols bytes
texDrawStatusMsg(c, fresh) ==
    IF c.stt_msg # MsgNone /\ fresh
    THEN <<EraseLine, Tok("stt_msg", <<c.stt_msg, c.dispCols>>)>>
    ELSE <<EraseLine>>

\* the buffer ab with the cursor placed at its document position
Frame_CursorNoOffset(c, fresh) ==
    <<CursorHide, CursorHome>>
    \o texDrawLine(c) \o texDrawStatusBar(c) \o texDrawStatusMsg(c, fresh)
    \o <<CursorPosition(c.cur_y + 1, c.ren_x + 1), CursorShow>>

\* the buffer ab of texDispRefresh, composed after editorScroll
Frame(c, fresh) ==
    <<CursorHide, CursorHome>>
    \o texDrawLine(c) \o texDrawStatusBar(c) \o texDrawStatusMsg(c, fresh)
    \o <<CursorPosition((c.cur_y - c.off_row) + 1, (c.ren_x - c.off_col) + 1), CursorShow>>

\* the buffer write() is given when the appends of frame were asked for: all
\* of them, or those up to the runaway padding loop
Written(frame) ==
    LET stuck == {k \in 1..Len(frame) : frame[k].seq = Runaway.seq}
    IN  IF stuck = {} THEN frame
        ELSE SubSeq(frame, 1, CHOOSE k \in stuck : \A j \in stuck : k <= j)

\* the calls of write() texDispRefresh makes when it returns, each with the
\* buffer it writes
texDispRefreshWrites(c, fresh) == << Written(Frame(editorScroll(c), fresh)) >>

(* ---- persistence ---- *)
RECURSIVE utilRow2StrLoop(_, _, _)
utilRow2StrLoop(c, i, buf) ==
    IF i >= c.n_rows THEN buf
    ELSE utilRow2StrLoop(c, i + 1,
             buf \o SubSeq(RowAt(c, i).chars, 1, RowAt(c, i).size) \o <<LF>>)

utilRow2Str(c) == utilRow2StrLoop(c, 0, <<>>)

\* getline: the next line of the stream, its terminating \n included
RECURSIVE LineEnd(_, _)
LineEnd(bytes, i) ==
    IF i > Len(bytes) THEN Len(bytes)
    ELSE IF bytes[i] = LF THEN i ELSE LineEnd(bytes, i + 1)

\* the inner loop of editorOpen stripping '\n' only
RECURSIVE StripLen_OnlyLF(_, _)
StripLen_OnlyLF(line, line_len) ==
    IF line_len > 0 /\ line[line_len] = LF
    THEN StripLen_OnlyLF(line, line_len - 1)
    ELSE line_len

RECURSIVE StripLen(_, _)
StripLen(line, line_len) ==
    IF line_len > 0 /\ (line[line_len] = LF \/ line[line_len] = CR)
    THEN StripLen(line, line_len - 1)
    ELSE line_len

RECURSIVE editorOpenLoop(_, _)
editorOpenLoop(c, rest) ==
    IF rest = <<>> THEN c
    ELSE LET e == LineEnd(rest, 1)
             line == SubSeq(rest, 1, e)
             line_len == StripLen(line, Len(line))
         IN  editorOpenLoop(editorAppendChar(c, c.n_rows, SubSeq(line, 1, line_len)),
                            SubSeq(rest, e + 1, Len(rest)))

\* editorOpen once fopen has succeeded on a file holding `content`
editorOpen(c, file_name, content) ==
    LET c1 == editorOpenLoop([c EXCEPT !.file_name = file_name], content)
    IN  [c1 EXCEPT !.mod = 0]

\* the file system after open(O_RDWR | O_CREAT), ftruncate(len), write(buffer):
\* out.kind names the first call that fails, out.n the bytes a short write wrote
Resize(content, len) ==
    [i \in 1..len |-> IF i <= Len(content) THEN content[i] ELSE NUL]

Created(d, name) ==
    IF name \in DOMAIN d THEN d
    ELSE [p \in DOMAIN d \cup {name} |-> IF p = name THEN <<>> ELSE d[p]]

WriteFile(d, name, content) ==
    [p \in DOMAIN d \cup {name} |-> IF p = name THEN content ELSE d[p]]

\* editorSave without the ftruncate call: bytes of the old file past len stay
DiskAfterSave_NoTruncate(d, name, buffer, out) ==
    LET len == Len(buffer)
        d1 == Created(d, name)
        old == d1[name]
    IN  CASE out.kind = "open_failed" -> d
          [] out.kind = "truncate_failed" -> d1
          [] out.kind = "write_failed" ->
               WriteFile(d1, name, SubSeq(buffer, 1, out.n) \o SubSeq(old, out.n + 1, Len(old)))
          [] out.kind = "ok" ->
               WriteFile(d1, name, buffer \o SubSeq(old, len + 1, Len(old)))

DiskAfterSave(d, name, buffer, out) ==
    LET len == Len(buffer)
        d1 == Created(d, name)
        cut == Resize(d1[name], len)
    IN  CASE out.kind = "open_failed" -> d
          [] out.kind = "truncate_failed" -> d1
          [] out.kind = "write_failed" ->
               WriteFile(d1, name, SubSeq(buffer, 1, out.n) \o SubSeq(cut, out.n + 1, len))
          [] out.kind = "ok" -> WriteFile(d1, name, buffer)

\* editorSave from the point where conf.file_name is set
\* editorSaveWrite clearing conf.mod before the outcome is known
editorSaveWrite_ClearsMod(c, out) ==
    IF out.kind = "ok"
    THEN texSetStatusMessage([c EXCEPT !.mod = 0], MsgWritten(Len(utilRow2Str(c))))
    ELSE texSetStatusMessage([c EXCEPT !.mod = 0], MsgIOError)

\* editorSaveWrite giving up the file name when the save fails
editorSaveWrite_ForgetsName(c, out) ==
    IF out.kind = "ok"
    THEN texSetStatusMessage([c EXCEPT !.mod = 0], MsgWritten(Len(utilRow2Str(c))))
    ELSE texSetStatusMessage([c EXCEPT !.file_name = NoName], MsgIOError)

editorSaveWrite(c, out) ==
    IF out.kind = "ok"
    THEN texSetStatusMessage([c EXCEPT !.mod = 0], MsgWritten(Len(utilRow2Str(c))))
    ELSE texSetStatusMessage(c, MsgIOError)

\* the outcomes drawn: each call failing, write returning -1 (n == 0) or
\* writing all bytes but the last (n == len - 1), and success
SaveOutcomes(len) ==
    {[kind |-> k, n |-> 0] : k \in {"open_failed", "truncate_failed", "ok"}}
    \cup {[kind |-> "write_failed", n |-> k] : k \in {0, len - 1} \cap (0..len)}

(* ---- the inputs of a run ---- *)
\* terminal sizes <<rows, cols>> reported by texGetWindowsSize
Terminals == {<<3, 12>>, <<4, 4>>}
\* the path given on the command line, "f"
FileArg == <<102>>
\* contents the file at FileArg may have when the editor starts
Files ==
    { <<97, 98, LF, 99, 100, LF, LF>>,
      <<97, CR, 98, CR, LF, TAB, TAB, 99>> }
\* bytes the default case of texProcessKey can receive: 'f', tab, Ctrl-J
Typed == {102, TAB, LF}
ArrowKeys == {ARR_UP, ARR_DOWN, ARR_LEFT, ARR_RIGHT}
PageKeys == {PAGE_UP, PAGE_DOWN}
RemoveKeys == {BKSP_KEY, CTRL_H, DEL_KEY}
NoopKeys == {CTRL_L, ESC}
AllKeys ==
    {CTRL_Q, CTRL_S, HOME_KEY, END_KEY, ENTER}
    \cup ArrowKeys \cup PageKeys \cup RemoveKeys \cup NoopKeys \cup Typed

\* iscntrl(c) for the bytes 0..127 (C locale)
iscntrl(c) == (0 <= c /\ c < 32) \/ c = 127

(* ---- texReadKey ---- *)
\* the int a char holding byte b converts to: char is signed or unsigned as the
\* build has it
Char2Int(b, char_signed) == IF char_signed /\ b >= 128 THEN b - 256 ELSE b

\* texReadKey decoding "\x1b[1~" as the End key
texReadKey_OneIsEnd(inp, char_signed) ==
    LET Plain(k) == [key |-> k, used |-> 1]
        c == inp[1]
    IN  IF c # ESC THEN Plain(Char2Int(c, char_signed))
        ELSE IF Len(inp) < 3 THEN [key |-> ESC, used |-> Len(inp)]
        ELSE LET kNav0 == inp[2]
                 kNav1 == inp[3]
             IN  IF kNav0 = 91
                 THEN IF 48 <= kNav1 /\ kNav1 <= 57
                      THEN IF Len(inp) < 4 THEN [key |-> ESC, used |-> 3]
                           ELSE [used |-> 4,
                                 key |-> IF inp[4] # 126 THEN ESC
                                         ELSE CASE kNav1 = 49 -> END_KEY
                                                [] kNav1 = 51 -> DEL_KEY
                                                [] kNav1 = 52 -> END_KEY
                                                [] kNav1 = 53 -> PAGE_UP
                                                [] kNav1 = 54 -> PAGE_DOWN
                                                [] kNav1 = 55 -> HOME_KEY
                                                [] kNav1 = 56 -> END_KEY
                                                [] OTHER -> ESC]
                      ELSE [used |-> 3,
                            key |-> CASE kNav1 = 65 -> ARR_UP
                                      [] kNav1 = 66 -> ARR_DOWN
                                      [] kNav1 = 68 -> ARR_LEFT
                                      [] kNav1 = 67 -> ARR_RIGHT
                                      [] kNav1 = 72 -> HOME_KEY
                                      [] kNav1 = 70 -> END_KEY
                                      [] OTHER -> ESC]
                 ELSE IF kNav0 = 79
                 THEN [used |-> 3,
                       key |-> CASE kNav1 = 72 -> HOME_KEY
                                 [] kNav1 = 70 -> END_KEY
                                 [] OTHER -> ESC]
                 ELSE [key |-> ESC, used |-> 3]

\* texReadKey on the bytes inp waiting on the terminal (at least one; a read
\* past the last of them does not return 1): the key returned and the number
\* of bytes consumed
texReadKey(inp, char_signed) ==
    LET Plain(k) == [key |-> k, used |-> 1]
        c == inp[1]
    IN  IF c # ESC THEN Plain(Char2Int(c, char_signed))
        ELSE IF Len(inp) < 3 THEN [key |-> ESC, used |-> Len(inp)]
        ELSE LET kNav0 == inp[2]
                 kNav1 == inp[3]
             IN  IF kNav0 = 91
                 THEN IF 48 <= kNav1 /\ kNav1 <= 57
                      THEN IF Len(inp) < 4 THEN [key |-> ESC, used |-> 3]
                           ELSE [used |-> 4,
                                 key |-> IF inp[4] # 126 THEN ESC
                                         ELSE CASE kNav1 = 49 -> HOME_KEY
                                                [] kNav1 = 51 -> DEL_KEY
                                                [] kNav1 = 52 -> END_KEY
                                                [] kNav1 = 53 -> PAGE_UP
                                                [] kNav1 = 54 -> PAGE_DOWN
                                                [] kNav1 = 55 -> HOME_KEY
                                                [] kNav1 = 56 -> END_KEY
                                                [] OTHER -> ESC]
                      ELSE [used |-> 3,
                            key |-> CASE kNav1 = 65 -> ARR_UP
                                      [] kNav1 = 66 -> ARR_DOWN
                                      [] kNav1 = 68 -> ARR_LEFT
                                      [] kNav1 = 67 -> ARR_RIGHT
                                      [] kNav1 = 72 -> HOME_KEY
                                      [] kNav1 = 70 -> END_KEY
                                      [] OTHER -> ESC]
                 ELSE IF kNav0 = 79
                 THEN [used |-> 3,
                       key |-> CASE kNav1 = 72 -> HOME_KEY
                                 [] kNav1 = 70 -> END_KEY
                                 [] OTHER -> ESC]
                 ELSE [key |-> ESC, used |-> 3]

(* ---- state ---- *)
VARIABLES
    conf,          \* struct texConfig conf
    confirm_exit,  \* static int confirm_exit of texProcessKey
    pc,            \* where the program stands: "start", "refresh", "key",
                   \* "prompt_refresh", "prompt_key", "exit"
    buffer,        \* the input buffer of texUserPrompt while it runs
    disk,          \* the file system: path |-> content of each existing file
    io,            \* how the system calls of the last step's save ended, or "none"
    exit_status,   \* the status passed to exit(), -1 while running
    nkeys,         \* keys read so far
    term,          \* the mode of the terminal: "raw" or "cooked"
    tty,           \* the bytes waiting on the terminal for texReadKey (used by
                   \* the decoder specification; the main loop draws decoded keys)
    keyRead        \* the value returned by the last call of texReadKey there

vars == <<conf, confirm_exit, pc, buffer, disk, io, exit_status, nkeys, term, tty, keyRead, now>>

\* texRawDisable, registered with atexit by texRawEnable: tcsetattr(orig_termios)
texRawDisable == term' = "cooked"

\* exit(status): the atexit handler runs, then the process ends
exit(status) ==
    /\ texRawDisable
    /\ pc' = "exit"
    /\ exit_status' = status

\* texTerminate with the terminal left as it is (_exit in place of exit)
texTerminate_NoRestore ==
    /\ UNCHANGED term
    /\ pc' = "exit"
    /\ exit_status' = 1

\* texTerminate(s): clear the screen, perror(s), exit(1)
texTerminate == exit(1)

texDispInit(rows, cols) ==
    [cur_x |-> 0, cur_y |-> 0, ren_x |-> 0, n_rows |-> 0, row |-> <<>>,
     file_name |-> NoName, off_row |-> 0, off_col |-> 0,
     stt_msg |-> MsgNone, msg_time |-> 0, mod |-> 0,
     dispRows |-> rows - 2, dispCols |-> cols]

Init ==
    /\ now = 0
    /\ \E t \in Terminals : conf = texDispInit(t[1], t[2])
    /\ confirm_exit = FORCE_QUIT
    /\ pc = "start"
    /\ buffer = <<>>
    /\ \/ disk = << >>
       \/ \E content \in Files : disk = [p \in {FileArg} |-> content]
    /\ io = "none"
    /\ exit_status = -1
    /\ nkeys = 0
    /\ term = "raw"
    /\ tty = <<>>
    /\ keyRead = 0

(* ---- main ---- *)
\* main with argc < 2, started where no file FileArg exists
StartNew ==
    /\ pc = "start"
    /\ FileArg \notin DOMAIN disk
    /\ conf' = texSetStatusMessage(conf, MsgHelp)
    /\ pc' = "refresh"
    /\ UNCHANGED <<confirm_exit, buffer, disk, io, exit_status, nkeys, term, tty, keyRead, now>>

\* main with argv[1] == FileArg and fopen succeeding
StartOpen ==
    /\ pc = "start"
    /\ FileArg \in DOMAIN disk
    /\ conf' = texSetStatusMessage(editorOpen(conf, FileArg, disk[FileArg]), MsgHelp)
    /\ pc' = "refresh"
    /\ UNCHANGED <<confirm_exit, buffer, disk, io, exit_status, nkeys, term, tty, keyRead, now>>

\* main with argv[1] == FileArg and fopen failing: texTerminate("fopen")
StartOpenFail ==
    /\ pc = "start"
    /\ FileArg \notin DOMAIN disk
    /\ conf' = [conf EXCEPT !.file_name = FileArg]
    /\ texTerminate
    /\ UNCHANGED <<confirm_exit, buffer, disk, io, nkeys, tty, keyRead, now>>

\* texDispInit with texGetWindowsSize failing: texTerminate("texGetWindowsSize")
\* before the window size is stored
StartSizeFail ==
    /\ pc = "start"
    /\ conf' = [conf EXCEPT !.dispRows = 0, !.dispCols = 0]
    /\ texTerminate
    /\ UNCHANGED <<confirm_exit, buffer, disk, io, nkeys, tty, keyRead, now>>

\* texDispRefresh() of the main loop
Refresh ==
    /\ pc = "refresh"
    /\ conf' = texDispRefresh(conf)
    /\ pc' = "key"
    /\ io' = "none"
    /\ UNCHANGED <<confirm_exit, buffer, disk, exit_status, nkeys, term, tty, keyRead, now>>

(* ---- texProcessKey, one action per case of the switch ---- *)
ReadKey ==
    /\ pc = "key"
    /\ nkeys < MaxKeys
    /\ nkeys' = nkeys + 1

\* texReadKey called by texProcessKey, read() failing with an errno other
\* than EAGAIN: texTerminate("read")
ReadFail ==
    /\ ReadKey
    /\ texTerminate
    /\ UNCHANGED <<conf, confirm_exit, buffer, disk, io, tty, keyRead, now>>

\* the switch without the re-initialisation that follows it
Break_NoReset ==
    /\ pc' = "refresh"
    /\ UNCHANGED confirm_exit

\* the statement after the switch, reached by every case that breaks
Break ==
    /\ confirm_exit' = FORCE_QUIT
    /\ pc' = "refresh"

\* the quit case exiting while one confirmation is still owed
KeyQuit_ExitAtOne ==
    /\ ReadKey
    /\ IF conf.mod # 0 /\ confirm_exit > 1
       THEN /\ conf' = texSetStatusMessage(conf, MsgWarn(confirm_exit))
            /\ confirm_exit' = confirm_exit - 1
            /\ pc' = "refresh"
            /\ UNCHANGED <<exit_status, term>>
       ELSE /\ exit(0)
            /\ UNCHANGED <<conf, confirm_exit>>
    /\ UNCHANGED <<buffer, disk, io, tty, keyRead, now>>

\* the quit case asking for confirmation without looking at conf.mod
KeyQuit_IgnoresMod ==
    /\ ReadKey
    /\ IF confirm_exit > 0
       THEN /\ conf' = texSetStatusMessage(conf, MsgWarn(confirm_exit))
            /\ confirm_exit' = confirm_exit - 1
            /\ pc' = "refresh"
            /\ UNCHANGED <<exit_status, term>>
       ELSE /\ exit(0)
            /\ UNCHANGED <<conf, confirm_exit>>
    /\ UNCHANGED <<buffer, disk, io, tty, keyRead, now>>

KeyQuit ==
    /\ ReadKey
    /\ IF conf.mod # 0 /\ confirm_exit > 0
       THEN /\ conf' = texSetStatusMessage(conf, MsgWarn(confirm_exit))
            /\ confirm_exit' = confirm_exit - 1
            /\ pc' = "refresh"
            /\ UNCHANGED <<exit_status, term>>
       ELSE /\ exit(0)
            /\ UNCHANGED <<conf, confirm_exit>>
    /\ UNCHANGED <<buffer, disk, io, tty, keyRead, now>>

\* editorSave with conf.file_name set: serialize, open, truncate, write
KeySaveNamed ==
    /\ ReadKey
    /\ conf.file_name # NoName
    /\ \E out \in SaveOutcomes(Len(utilRow2Str(conf))) :
         /\ conf' = editorSaveWrite(conf, out)
         /\ disk' = DiskAfterSave(disk, conf.file_name, utilRow2Str(conf), out)
         /\ io' = out.kind
    /\ Break
    /\ UNCHANGED <<buffer, exit_status, term, tty, keyRead, now>>

\* editorSave with no file name: texUserPrompt starts
KeySavePrompt ==
    /\ ReadKey
    /\ conf.file_name = NoName
    /\ buffer' = <<>>
    /\ pc' = "prompt_refresh"
    /\ UNCHANGED <<conf, confirm_exit, disk, io, exit_status, term, tty, keyRead, now>>

KeyArrow ==
    /\ ReadKey
    /\ \E key \in ArrowKeys : conf' = texNavCursor(conf, key)
    /\ Break
    /\ UNCHANGED <<buffer, disk, io, exit_status, term, tty, keyRead, now>>

KeyPage ==
    /\ ReadKey
    /\ \E key \in PageKeys : conf' = PageKey(conf, key)
    /\ Break
    /\ UNCHANGED <<buffer, disk, io, exit_status, term, tty, keyRead, now>>

KeyHome ==
    /\ ReadKey
    /\ conf' = HomeKey(conf)
    /\ Break
    /\ UNCHANGED <<buffer, disk, io, exit_status, term, tty, keyRead, now>>

KeyEnd ==
    /\ ReadKey
    /\ conf' = EndKey(conf)
    /\ Break
    /\ UNCHANGED <<buffer, disk, io, exit_status, term, tty, keyRead, now>>

KeyRemove ==
    /\ ReadKey
    /\ \E key \in RemoveKeys : conf' = RemoveKey(conf, key)
    /\ Break
    /\ UNCHANGED <<buffer, disk, io, exit_status, term, tty, keyRead, now>>

KeyNoop ==
    /\ ReadKey
    /\ Break
    /\ UNCHANGED <<conf, buffer, disk, io, exit_status, term, tty, keyRead, now>>

KeyEnter ==
    /\ ReadKey
    /\ conf' = editorInsertNewLine(conf)
    /\ Break
    /\ UNCHANGED <<buffer, disk, io, exit_status, term, tty, keyRead, now>>

KeyDefault ==
    /\ ReadKey
    /\ \E ch \in Typed : conf' = editorInputChar(conf, ch)
    /\ Break
    /\ UNCHANGED <<buffer, disk, io, exit_status, term, tty, keyRead, now>>

(* ---- texUserPrompt ---- *)
\* top of the prompt loop: texSetStatusMessage(prompt, buffer); texDispRefresh()
PromptRefresh ==
    /\ pc = "prompt_refresh"
    /\ conf' = texDispRefresh(texSetStatusMessage(conf, MsgPrompt(buffer)))
    /\ pc' = "prompt_key"
    /\ UNCHANGED <<confirm_exit, buffer, disk, io, exit_status, nkeys, term, tty, keyRead, now>>

ReadPromptKey ==
    /\ pc = "prompt_key"
    /\ nkeys < MaxKeys
    /\ nkeys' = nkeys + 1

\* texReadKey called by texUserPrompt, read() failing: texTerminate("read")
PromptReadFail ==
    /\ ReadPromptKey
    /\ texTerminate
    /\ UNCHANGED <<conf, confirm_exit, buffer, disk, io, tty, keyRead, now>>

PromptErase ==
    /\ ReadPromptKey
    /\ buffer' = IF Len(buffer) # 0 THEN SubSeq(buffer, 1, Len(buffer) - 1) ELSE buffer
    /\ pc' = "prompt_refresh"
    /\ UNCHANGED <<conf, confirm_exit, disk, io, exit_status, term, tty, keyRead, now>>

\* ESC with editorSave not returning after "Save cancelled": it goes on to
\* open(NULL), which fails
PromptCancel_NoReturn ==
    /\ ReadPromptKey
    /\ conf' = texSetStatusMessage(
                   [texSetStatusMessage(conf, MsgNone) EXCEPT !.file_name = NoName],
                   MsgIOError)
    /\ buffer' = <<>>
    /\ io' = "open_failed"
    /\ Break
    /\ UNCHANGED <<disk, exit_status, term, tty, keyRead, now>>

\* ESC: the prompt returns NULL and editorSave reports the cancellation
PromptCancel ==
    /\ ReadPromptKey
    /\ conf' = texSetStatusMessage(
                   [texSetStatusMessage(conf, MsgNone) EXCEPT !.file_name = NoName],
                   MsgCancelled)
    /\ buffer' = <<>>
    /\ Break
    /\ UNCHANGED <<disk, io, exit_status, term, tty, keyRead, now>>

\* Enter on an empty buffer: the loop goes on
PromptEnterEmpty ==
    /\ ReadPromptKey
    /\ Len(buffer) = 0
    /\ pc' = "prompt_refresh"
    /\ UNCHANGED <<conf, confirm_exit, buffer, disk, io, exit_status, term, tty, keyRead, now>>

\* Enter on a non-empty buffer: the prompt returns it and editorSave goes on
PromptCommit ==
    /\ ReadPromptKey
    /\ Len(buffer) # 0
    /\ LET named == [texSetStatusMessage(conf, MsgNone) EXCEPT !.file_name = buffer]
       IN  \E out \in SaveOutcomes(Len(utilRow2Str(named))) :
             /\ conf' = editorSaveWrite(named, out)
             /\ disk' = DiskAfterSave(disk, buffer, utilRow2Str(named), out)
             /\ io' = out.kind
    /\ buffer' = <<>>
    /\ Break
    /\ UNCHANGED <<exit_status, term, tty, keyRead, now>>

PromptType ==
    /\ ReadPromptKey
    /\ \E c \in AllKeys \ (RemoveKeys \cup {ESC, ENTER}) :
         buffer' = IF ~iscntrl(c) /\ c < 128 THEN Append(buffer, c) ELSE buffer
    /\ pc' = "prompt_refresh"
    /\ UNCHANGED <<conf, confirm_exit, disk, io, exit_status, term, tty, keyRead, now>>

Next ==
    \/ StartNew \/ StartOpen \/ StartOpenFail \/ StartSizeFail
    \/ Refresh \/ ReadFail \/ PromptReadFail
    \/ KeyQuit \/ KeySaveNamed \/ KeySavePrompt
    \/ KeyArrow \/ KeyPage \/ KeyHome \/ KeyEnd
    \/ KeyRemove \/ KeyNoop \/ KeyEnter \/ KeyDefault
    \/ PromptRefresh \/ PromptErase \/ PromptCancel
    \/ PromptEnterEmpty \/ PromptCommit \/ PromptType

Spec == Init /\ [][Next]_vars

(* ---- the row operations applied to one row at a time ---- *)
\* longest row drawn
MaxRowLen == 3
RowBytes == {97, 102, TAB}
RowsUpTo(n) == UNION {[1..k -> RowBytes] : k \in 0..n}

\* the store holds the row drawn twice: row 0 stays as it is, row 1 is the
\* one operated on; cur_x is the column the operations are applied at
InitRow ==
    /\ now = 0
    /\ \E s \in RowsUpTo(MaxRowLen) :
          conf = editorAppendChar(editorAppendChar(texDispInit(3, 4), 0, s), 1, s)
    /\ confirm_exit = FORCE_QUIT
    /\ pc = "row"
    /\ buffer = <<>>
    /\ disk = << >>
    /\ io = "none"
    /\ exit_status = -1
    /\ nkeys = 0
    /\ term = "raw"
    /\ tty = <<>>
    /\ keyRead = 0

\* utilCharInsert(&conf.row[1], col, b)
RowInsert ==
    /\ pc = "row"
    /\ \E col \in 0..RowAt(conf, 1).size, b \in RowBytes :
          conf' = utilCharInsert([conf EXCEPT !.cur_x = col], 1, col, b)
    /\ pc' = "row_inserted"
    /\ UNCHANGED <<confirm_exit, buffer, disk, io, exit_status, nkeys, term, tty, keyRead, now>>

\* utilCharDel(&conf.row[1], col) at the column of the insertion
RowDelete ==
    /\ pc = "row_inserted"
    /\ conf' = utilCharDel(conf, 1, conf.cur_x)
    /\ pc' = "row_deleted"
    /\ UNCHANGED <<confirm_exit, buffer, disk, io, exit_status, nkeys, term, tty, keyRead, now>>

NextRow == RowInsert \/ RowDelete

SpecRow == InitRow /\ [][NextRow]_vars

(* ======================================================================= *)
(* Properties                                                              *)
(* ======================================================================= *)

\* the tab expansion of a byte sequence, by its definition: a tab fills up
\* to the next multiple of the tab stop, any other byte stands for itself
RECURSIVE TabExpand(_)
TabExpand(s) ==
    IF s = <<>> THEN <<>>
    ELSE LET p == TabExpand(SubSeq(s, 1, Len(s) - 1))
             b == s[Len(s)]
         IN  IF b = TAB
             THEN p \o [k \in 1..(TABS_TO_SPACES - (Len(p) % TABS_TO_SPACES)) |-> SP]
             ELSE p \o <<b>>

RowChars(c) == [i \in 1..c.n_rows |-> c.row[i].chars]

\* C1 (as stated): with unsaved changes, the second of two consecutive quit
\* keystrokes (the one read with the counter one below its initial value)
\* exits the editor.
C1_SecondQuitExits ==
    [][(KeyQuit /\ conf.mod # 0 /\ confirm_exit = FORCE_QUIT - 1) => pc' = "exit"]_vars

\* C1 (amended): with unsaved changes and the counter at its initial value 2,
\* quitting takes three consecutive quit keystrokes: the first warns with
\* count 2, the second warns with count 1, and only the third, read with the
\* counter at 0, exits with status 0.
C1_ThirdQuitExits ==
    [][(KeyQuit /\ conf.mod # 0) =>
          /\ confirm_exit \in 0..FORCE_QUIT
          /\ confirm_exit > 0 =>
                /\ pc' = "refresh"
                /\ exit_status' = -1
                /\ confirm_exit' = confirm_exit - 1
                /\ conf'.stt_msg = MsgWarn(confirm_exit)
          /\ confirm_exit = 0 => (pc' = "exit" /\ exit_status' = 0)]_vars

\* the editor has exited on the third quit keystroke with unsaved changes
C1_Witness ==
    pc = "exit" /\ exit_status = 0 /\ conf.mod # 0 /\ confirm_exit = 0

\* C2: every key other than the quit key, once processed, leaves the quit
\* confirmation counter at its initial value 2; a quit keystroke that only
\* warns lowers it instead.
C2_OtherKeyResets ==
    [][((pc \in {"key", "prompt_key"} /\ pc' = "refresh") =>
           IF KeyQuit
           THEN confirm_exit' = confirm_exit - 1 /\ confirm_exit' < FORCE_QUIT
           ELSE confirm_exit' = FORCE_QUIT)]_vars

\* a pending quit (counter below 2) was cancelled by another key
C2_Witness ==
    /\ pc = "refresh" /\ confirm_exit = FORCE_QUIT
    /\ conf.mod # 0 /\ conf.stt_msg.fmt = MsgWarn(0).fmt

\* C3: with modified == 0 a single quit keystroke exits with status 0 and
\* sets no warning message, whatever the confirmation counter.
C3_CleanQuit ==
    [][(KeyQuit /\ conf.mod = 0) =>
          (pc' = "exit" /\ exit_status' = 0 /\ conf' = conf)]_vars

\* the editor has exited from an unmodified buffer holding rows
C3_Witness ==
    pc = "exit" /\ exit_status = 0 /\ conf.mod = 0 /\ conf.n_rows > 0

\* C4: the cursor is inside the document: 0 <= cur_y <= n, 0 <= cur_x <=
\* size of row cur_y when cur_y < n, and cur_x == 0 when cur_y == n.
C4_CursorInRange ==
    /\ 0 <= conf.cur_y /\ conf.cur_y <= conf.n_rows
    /\ conf.cur_y < conf.n_rows =>
          (0 <= conf.cur_x /\ conf.cur_x <= RowAt(conf, conf.cur_y).size)
    /\ conf.cur_y = conf.n_rows => conf.cur_x = 0

\* keys moved the cursor from a longer row onto a shorter, non-empty one
C4_Witness ==
    /\ nkeys >= 2 /\ conf.cur_y < conf.n_rows /\ conf.cur_y > 0
    /\ conf.cur_x = RowAt(conf, conf.cur_y).size /\ conf.cur_x > 0
    /\ \E y \in 0..(conf.n_rows - 1) : RowAt(conf, y).size > conf.cur_x

RenX(c) == IF c.cur_y < c.n_rows THEN utilCur2Ren(RowAt(c, c.cur_y), c.cur_x) ELSE 0

CursorVisible(c) ==
    /\ c.off_row <= c.cur_y /\ c.cur_y < c.off_row + c.dispRows
    /\ c.off_col <= RenX(c) /\ RenX(c) < c.off_col + c.dispCols

\* C5 (as stated): in the state right after a navigation key has been
\* processed the cursor lies inside the viewport.
C5_VisibleAfterKey ==
    [][(KeyArrow \/ KeyPage \/ KeyHome \/ KeyEnd) => CursorVisible(conf')]_vars

\* C5 (amended): the viewport is not recomputed when a key is processed but
\* by the refresh that follows it; in the state right after that refresh
\* (dispRows >= 1, dispCols >= 1) ren_x is the render column of the cursor,
\* off_row <= cur_y < off_row + dispRows and off_col <= ren_x < off_col + dispCols.
C5_VisibleAfterRefresh ==
    (pc \in {"key", "prompt_key"}) =>
        (conf.ren_x = RenX(conf) /\ CursorVisible(conf))

\* after keys, a refresh has scrolled both down and to the right
C5_Witness ==
    pc = "key" /\ nkeys > 0 /\ conf.off_row > 0 /\ conf.off_col > 0

\* C6: every row's render is the tab expansion (tab stop 8) of its chars,
\* ren_sz is the length of render and size the length of chars.
C6_RenderMatchesChars ==
    \A i \in 1..Len(conf.row) :
        /\ conf.row[i].size = Len(conf.row[i].chars)
        /\ conf.row[i].render = TabExpand(conf.row[i].chars)
        /\ conf.row[i].ren_sz = Len(conf.row[i].render)

\* Enter has split a row that holds a tab, leaving bytes on both sides
C6_Witness ==
    /\ conf.mod > 0 /\ conf.cur_x = 0 /\ conf.cur_y > 0 /\ conf.cur_y < conf.n_rows
    /\ RowAt(conf, conf.cur_y).size > 0
    /\ RowAt(conf, conf.cur_y - 1).size > 0
    /\ \E k \in 1..RowAt(conf, conf.cur_y - 1).size :
          RowAt(conf, conf.cur_y - 1).chars[k] = TAB

\* C7 (as stated): after a successful save, opening the saved file into an
\* empty buffer yields the rows of the buffer that was saved.
C7_SaveOpenRoundTrip ==
    (io = "ok") =>
        RowChars(editorOpen(texDispInit(3, 4), conf.file_name, disk[conf.file_name]))
            = RowChars(conf)

\* C8: for every row and every col in [0, size], inserting a byte at col and
\* then deleting at col restores chars and size exactly, and render is the
\* tab expansion of the restored chars.
C8_InsertDeleteInverse ==
    /\ (pc = "row_inserted") =>
          /\ RowAt(conf, 1).size = RowAt(conf, 0).size + 1
          /\ RowAt(conf, 1).size = Len(RowAt(conf, 1).chars)
          /\ RemoveAt(RowAt(conf, 1).chars, conf.cur_x) = RowAt(conf, 0).chars
    /\ (pc = "row_deleted") =>
          /\ RowAt(conf, 1).chars = RowAt(conf, 0).chars
          /\ RowAt(conf, 1).size = RowAt(conf, 0).size
          /\ RowAt(conf, 1).render = TabExpand(RowAt(conf, 0).chars)
          /\ RowAt(conf, 1).ren_sz = Len(RowAt(conf, 1).render)

\* a byte was inserted before a tab in the middle of a row and deleted again
C8_Witness ==
    /\ pc = "row_deleted" /\ conf.mod = 4
    /\ RowAt(conf, 1).size = 3 /\ conf.cur_x = 1
    /\ RowAt(conf, 1).chars[2] = TAB

SaveFailures == {"open_failed", "truncate_failed", "write_failed"}

\* C9: a save whose open, truncate or write fails leaves every row, the row
\* count, the cursor and modified unchanged and sets the error message.
C9_FailedSaveKeepsState ==
    [][(io' \in SaveFailures) =>
          /\ conf'.row = conf.row
          /\ conf'.n_rows = conf.n_rows
          /\ conf'.cur_x = conf.cur_x
          /\ conf'.cur_y = conf.cur_y
          /\ conf'.mod = conf.mod
          /\ conf'.stt_msg = MsgIOError]_vars

\* a save of a modified buffer has failed in write
C9_Witness ==
    io = "write_failed" /\ conf.mod > 0 /\ conf.n_rows > 0 /\ conf.stt_msg = MsgIOError

InPrompt == pc \in {"prompt_refresh", "prompt_key"}

\* C10: from the save key that opens the prompt to the ESC that cancels it,
\* no step writes a file or changes the rows, the cursor, modified or the
\* absent file name, and the cancelling step sets "Save cancelled".
C10_CancelledPromptKeepsState ==
    [][((InPrompt \/ InPrompt') /\ ~(pc = "prompt_key" /\ conf'.file_name # NoName)) =>
          /\ conf'.row = conf.row
          /\ conf'.n_rows = conf.n_rows
          /\ conf'.cur_x = conf.cur_x
          /\ conf'.cur_y = conf.cur_y
          /\ conf'.mod = conf.mod
          /\ conf.file_name = NoName /\ conf'.file_name = NoName
          /\ disk' = disk
          /\ io' = "none"
          /\ (pc = "prompt_key" /\ pc' = "refresh") => conf'.stt_msg = MsgCancelled]_vars

\* a prompt on a modified buffer was cancelled after a name had been typed
C10_Witness ==
    /\ pc = "refresh" /\ conf.stt_msg = MsgCancelled
    /\ conf.mod > 0 /\ conf.file_name = NoName /\ nkeys >= 4

(* ---- editorOpen on arbitrary file contents ---- *)
MaxFileLen == 5
FileBytes == {97, LF, CR}

RECURSIVE BytesUpTo(_, _)
BytesUpTo(alphabet, n) ==
    IF n = 0 THEN {<<>>}
    ELSE LET shorter == BytesUpTo(alphabet, n - 1)
         IN  shorter \cup {Append(s, b) : s \in {t \in shorter : Len(t) = n - 1}, b \in alphabet}

InitOpen ==
    /\ now = 0
    /\ conf = texDispInit(4, 4)
    /\ confirm_exit = FORCE_QUIT
    /\ pc = "start"
    /\ buffer = <<>>
    /\ \E content \in BytesUpTo(FileBytes, MaxFileLen) : disk = [p \in {FileArg} |-> content]
    /\ io = "none"
    /\ exit_status = -1
    /\ nkeys = 0
    /\ term = "raw"
    /\ tty = <<>>
    /\ keyRead = 0

NextOpen == StartOpen

SpecOpen == InitOpen /\ [][NextOpen]_vars

(* ---- one key on an arbitrary document ---- *)
MaxDocRows == 2
\* the rows a document is built from: "", "a", "bc", "\td"
DocRows == {<<>>, <<97>>, <<98, 99>>, <<TAB, 100>>}

RECURSIVE DocsUpTo(_)
DocsUpTo(n) ==
    IF n = 0 THEN {<<>>}
    ELSE LET shorter == DocsUpTo(n - 1)
         IN  shorter \cup {Append(d, r) : d \in {e \in shorter : Len(e) = n - 1}, r \in DocRows}

\* the file holding the rows of doc, one line each
RECURSIVE DocFile(_)
DocFile(doc) ==
    IF doc = <<>> THEN <<>> ELSE Head(doc) \o <<LF>> \o DocFile(Tail(doc))

\* the editor in its main loop, about to refresh and read the last key of the
\* session: the document was opened from FileArg and the cursor has been moved
\* to some position of it (the virtual row after the last one included)
InitEdit ==
    /\ now = 0
    /\ \E doc \in DocsUpTo(MaxDocRows) :
         /\ disk = [p \in {FileArg} |-> DocFile(doc)]
         /\ \E y \in 0..Len(doc) :
              \E x \in 0..(IF y < Len(doc) THEN Len(doc[y + 1]) ELSE 0) :
                conf = [texSetStatusMessage(
                            editorOpen(texDispInit(4, 4), FileArg, DocFile(doc)), MsgHelp)
                        EXCEPT !.cur_x = x, !.cur_y = y]
    /\ confirm_exit = FORCE_QUIT
    /\ pc = "refresh"
    /\ buffer = <<>>
    /\ io = "none"
    /\ exit_status = -1
    /\ nkeys = MaxKeys - 1
    /\ term = "raw"
    /\ tty = <<>>
    /\ keyRead = 0

NextEdit == Refresh \/ KeyArrow \/ KeyRemove \/ KeyEnter \/ KeyDefault

SpecEdit == InitEdit /\ [][NextEdit]_vars

(* ---- two keys on an arbitrary document ---- *)
\* as InitEdit, with the last two keys of the session to come
InitUndo ==
    /\ now = 0
    /\ \E doc \in DocsUpTo(MaxDocRows) :
         /\ disk = [p \in {FileArg} |-> DocFile(doc)]
         /\ \E y \in 0..Len(doc) :
              \E x \in 0..(IF y < Len(doc) THEN Len(doc[y + 1]) ELSE 0) :
                conf = [texSetStatusMessage(
                            editorOpen(texDispInit(4, 4), FileArg, DocFile(doc)), MsgHelp)
                        EXCEPT !.cur_x = x, !.cur_y = y]
    /\ confirm_exit = FORCE_QUIT
    /\ pc = "refresh"
    /\ buffer = <<>>
    /\ io = "none"
    /\ exit_status = -1
    /\ nkeys = MaxKeys - 2
    /\ term = "raw"
    /\ tty = <<>>
    /\ keyRead = 0

NextUndo ==
    \/ Refresh \/ KeyQuit \/ KeySaveNamed
    \/ KeyArrow \/ KeyPage \/ KeyHome \/ KeyEnd
    \/ KeyRemove \/ KeyNoop \/ KeyEnter \/ KeyDefault

SpecUndo == InitUndo /\ [][NextUndo]_vars

(* ---- the decoder on arbitrary input ---- *)
MaxTail == 3
\* ESC [ O A B C D F H 1..8 ~ f and the byte 200
KeyBytes == {ESC, 91, 79, 65, 66, 67, 68, 70, 72, 126, 102, 200} \cup (49..56)

InitKeys ==
    /\ now = 0
    /\ conf = texDispInit(4, 4)
    /\ confirm_exit = FORCE_QUIT
    /\ pc = "key"
    /\ buffer = <<>>
    /\ disk = << >>
    /\ io = "none"
    /\ exit_status = -1
    /\ nkeys = 0
    /\ term = "raw"
    /\ \E tail \in BytesUpTo(KeyBytes, MaxTail) : tty = <<ESC>> \o tail
    /\ keyRead = 0

\* one call of texReadKey
DecodeKey ==
    /\ pc = "key"
    /\ tty # <<>>
    /\ \E char_signed \in BOOLEAN :
         LET r == texReadKey(tty, char_signed)
         IN  /\ keyRead' = r.key
             /\ tty' = SubSeq(tty, r.used + 1, Len(tty))
    /\ UNCHANGED <<conf, confirm_exit, pc, buffer, disk, io, exit_status, nkeys, term, now>>

NextKeys == DecodeKey

SpecKeys == InitKeys /\ [][NextKeys]_vars

(* ---- the main loop fed by the decoder ---- *)
\* ESC [ O A H ~ 1 2 3 f and the byte 200
LoopBytes == {ESC, 91, 79, 65, 72, 126, 49, 50, 51, 102, 200}

\* the switch of texProcessKey for a key other than Ctrl-Q and Ctrl-S, with the
\* case of ESC missing, so that ESC reaches the default case
texProcessKeySwitch_EscTyped(c, k) ==
    CASE k \in ArrowKeys -> texNavCursor(c, k)
      [] k \in PageKeys -> PageKey(c, k)
      [] k = HOME_KEY -> HomeKey(c)
      [] k = END_KEY -> EndKey(c)
      [] k \in RemoveKeys -> RemoveKey(c, k)
      [] k = CTRL_L -> c
      [] k = ENTER -> editorInsertNewLine(c)
      [] OTHER -> editorInputChar(c, k)

\* the switch of texProcessKey for a key other than Ctrl-Q and Ctrl-S
texProcessKeySwitch(c, k) ==
    CASE k \in ArrowKeys -> texNavCursor(c, k)
      [] k \in PageKeys -> PageKey(c, k)
      [] k = HOME_KEY -> HomeKey(c)
      [] k = END_KEY -> EndKey(c)
      [] k \in RemoveKeys -> RemoveKey(c, k)
      [] k \in NoopKeys -> c
      [] k = ENTER -> editorInsertNewLine(c)
      [] OTHER -> editorInputChar(c, k)

\* the editor in its main loop on the document "ab", "cd", "" with the bytes of
\* some keys waiting on the terminal
InitLoop ==
    /\ now = 0
    /\ conf = texSetStatusMessage(
                 editorOpen(texDispInit(4, 4), FileArg, <<97, 98, LF, 99, 100, LF, LF>>), MsgHelp)
    /\ confirm_exit = FORCE_QUIT
    /\ pc = "refresh"
    /\ buffer = <<>>
    /\ disk = [p \in {FileArg} |-> <<97, 98, LF, 99, 100, LF, LF>>]
    /\ io = "none"
    /\ exit_status = -1
    /\ nkeys = 0
    /\ term = "raw"
    /\ \E tail \in BytesUpTo(LoopBytes, MaxTail) : tty = <<ESC>> \o tail
    /\ keyRead = 0

\* texProcessKey: texReadKey, then the switch on the key it returned
ProcessKey ==
    /\ pc = "key"
    /\ tty # <<>>
    /\ \E char_signed \in BOOLEAN :
         LET r == texReadKey(tty, char_signed)
         IN  /\ r.key \notin {CTRL_Q, CTRL_S}
             /\ keyRead' = r.key
             /\ tty' = SubSeq(tty, r.used + 1, Len(tty))
             /\ conf' = texProcessKeySwitch(conf, r.key)
    /\ Break
    /\ UNCHANGED <<buffer, disk, io, exit_status, nkeys, term, now>>

NextLoop == Refresh \/ ProcessKey

SpecLoop == InitLoop /\ [][NextLoop]_vars

(* ---- frames and paging on an arbitrary document ---- *)
\* a terminal of 3 rows and 4 columns, and one of 4 rows and 40 columns
ViewTerminals == {<<3, 4>>, <<4, 40>>}

\* as InitEdit, on either terminal
InitView ==
    /\ now = 0
    /\ \E t \in ViewTerminals, doc \in DocsUpTo(MaxDocRows) :
         /\ disk = [p \in {FileArg} |-> DocFile(doc)]
         /\ \E y \in 0..Len(doc) :
              \E x \in 0..(IF y < Len(doc) THEN Len(doc[y + 1]) ELSE 0) :
                conf = [texSetStatusMessage(
                            editorOpen(texDispInit(t[1], t[2]), FileArg, DocFile(doc)), MsgHelp)
                        EXCEPT !.cur_x = x, !.cur_y = y]
    /\ confirm_exit = FORCE_QUIT
    /\ pc = "refresh"
    /\ buffer = <<>>
    /\ io = "none"
    /\ exit_status = -1
    /\ nkeys = MaxKeys - 1
    /\ term = "raw"
    /\ tty = <<>>
    /\ keyRead = 0

NextView == Refresh \/ KeyArrow \/ KeyPage \/ KeyHome \/ KeyEnd \/ KeyNoop \/ KeyDefault

SpecView == InitView /\ [][NextView]_vars

(* ---- texUserPrompt fed by the decoder ---- *)
\* ESC, Enter, Backspace, Ctrl-H, 'f', the byte 255, and [ 3 ~ of "\x1b[3~"
PromptBytes == {ESC, ENTER, BKSP_KEY, CTRL_H, 102, 255, 91, 51, 126}

\* one turn of the loop of texUserPrompt on the key c with every key but
\* Enter and ESC typed into the input
texUserPromptKey_TypesAll(buf, c) ==
    IF c = ESC THEN [buffer |-> buf, returns |-> "NULL"]
    ELSE IF c = ENTER
    THEN [buffer |-> buf, returns |-> IF Len(buf) # 0 THEN "buffer" ELSE "no"]
    ELSE [buffer |-> Append(buf, c % 256), returns |-> "no"]

\* one turn of the loop of texUserPrompt on the key c: the input afterwards, and
\* whether the function returns. iscntrl is called with c as texReadKey gave
\* it; of the values outside 0..255 the model draws only EOF (-1), for which
\* iscntrl is defined and 0
texUserPromptKey(buf, c) ==
    IF c = DEL_KEY \/ c = CTRL_H \/ c = BKSP_KEY
    THEN [buffer |-> IF Len(buf) # 0 THEN SubSeq(buf, 1, Len(buf) - 1) ELSE buf,
          returns |-> "no"]
    ELSE IF c = ESC THEN [buffer |-> buf, returns |-> "NULL"]
    ELSE IF c = ENTER
    THEN [buffer |-> buf, returns |-> IF Len(buf) # 0 THEN "buffer" ELSE "no"]
    ELSE IF ~iscntrl(c) /\ c < 128
    THEN [buffer |-> Append(buf, c % 256), returns |-> "no"]
    ELSE [buffer |-> buf, returns |-> "no"]

\* Ctrl-S was pressed on the unnamed document "ab" with the bytes of some keys
\* waiting on the terminal
InitPrompt ==
    /\ now = 0
    /\ conf = editorInputChar(editorInputChar(
                 texSetStatusMessage(texDispInit(4, 4), MsgHelp), 97), 98)
    /\ confirm_exit = FORCE_QUIT
    /\ pc = "prompt_refresh"
    /\ buffer = <<>>
    /\ disk = << >>
    /\ io = "none"
    /\ exit_status = -1
    /\ nkeys = 0
    /\ term = "raw"
    /\ tty \in BytesUpTo(PromptBytes, MaxTail + 1)
    /\ keyRead = 0

\* texReadKey in texUserPrompt and the rest of the turn; when the prompt
\* returns, editorSave goes on as in PromptCancel and PromptCommit
PromptProcessKey ==
    /\ pc = "prompt_key"
    /\ tty # <<>>
    /\ \E char_signed \in BOOLEAN :
         LET r == texReadKey(tty, char_signed)
             turn == texUserPromptKey(buffer, r.key)
         IN  /\ keyRead' = r.key
             /\ tty' = SubSeq(tty, r.used + 1, Len(tty))
             /\ CASE turn.returns = "no" ->
                       /\ buffer' = turn.buffer
                       /\ pc' = "prompt_refresh"
                       /\ UNCHANGED <<conf, confirm_exit, disk, io>>
                  [] turn.returns = "NULL" ->
                       /\ conf' = texSetStatusMessage(
                                      [texSetStatusMessage(conf, MsgNone) EXCEPT !.file_name = NoName],
                                      MsgCancelled)
                       /\ buffer' = <<>>
                       /\ Break
                       /\ UNCHANGED <<disk, io>>
                  [] turn.returns = "buffer" ->
                       LET named == [texSetStatusMessage(conf, MsgNone)
                                     EXCEPT !.file_name = turn.buffer]
                       IN  /\ \E out \in SaveOutcomes(Len(utilRow2Str(named))) :
                                 /\ conf' = editorSaveWrite(named, out)
                                 /\ disk' = DiskAfterSave(disk, turn.buffer, utilRow2Str(named), out)
                                 /\ io' = out.kind
                           /\ buffer' = <<>>
                           /\ Break
    /\ UNCHANGED <<exit_status, nkeys, term, now>>

NextPrompt == PromptRefresh \/ PromptProcessKey \/ Refresh

SpecPrompt == InitPrompt /\ [][NextPrompt]_vars

(* ---- frames while time passes ---- *)
MaxClock == 6

\* a document opened at second 0 with the help message set, two keys to come
InitClock ==
    /\ now = 0
    /\ \E t \in ViewTerminals, doc \in DocsUpTo(MaxDocRows) :
         /\ disk = [p \in {FileArg} |-> DocFile(doc)]
         /\ conf = texSetStatusMessage(
                      editorOpen(texDispInit(t[1], t[2]), FileArg, DocFile(doc)), MsgHelp)
    /\ confirm_exit = FORCE_QUIT
    /\ pc = "refresh"
    /\ buffer = <<>>
    /\ io = "none"
    /\ exit_status = -1
    /\ nkeys = MaxKeys - 2
    /\ term = "raw"
    /\ tty = <<>>
    /\ keyRead = 0

\* a second passes while read() waits for a key
Tick ==
    /\ pc = "key"
    /\ now < MaxClock
    /\ now' = now + 1
    /\ UNCHANGED <<conf, confirm_exit, pc, buffer, disk, io, exit_status, nkeys, term, tty, keyRead>>

NextClock == Tick \/ Refresh \/ KeyArrow \/ KeyDefault \/ KeyQuit

SpecClock == InitClock /\ [][NextClock]_vars

(* ---- the row store called with arbitrary arguments ---- *)
InitStore ==
    /\ now = 0
    /\ \E doc \in DocsUpTo(MaxDocRows) :
         /\ disk = [p \in {FileArg} |-> DocFile(doc)]
         /\ conf = editorOpen(texDispInit(4, 4), FileArg, DocFile(doc))
    /\ confirm_exit = FORCE_QUIT
    /\ pc = "store"
    /\ buffer = <<>>
    /\ io = "none"
    /\ exit_status = -1
    /\ nkeys = 0
    /\ term = "raw"
    /\ tty = <<>>
    /\ keyRead = 0

\* editorAppendChar(at, s, len) for an index from one below to one above the
\* valid ones
StoreInsertRow ==
    /\ pc = "store"
    /\ \E at \in (-1)..(conf.n_rows + 1), s \in DocRows :
         conf' = editorAppendChar(conf, at, s)
    /\ pc' = "store_inserted"
    /\ UNCHANGED <<confirm_exit, buffer, disk, io, exit_status, nkeys, term, tty, keyRead, now>>

\* utilCharDel(&conf.row[y], at) for a column from one below to one above the
\* bytes of the row
StoreDeleteChar ==
    /\ pc = "store"
    /\ \E y \in 0..(conf.n_rows - 1) :
         \E at \in (-1)..(RowAt(conf, y).size + 1) :
           conf' = utilCharDel(conf, y, at)
    /\ pc' = "store_deleted"
    /\ UNCHANGED <<confirm_exit, buffer, disk, io, exit_status, nkeys, term, tty, keyRead, now>>

NextStore == StoreInsertRow \/ StoreDeleteChar

SpecStore == InitStore /\ [][NextStore]_vars

(* ---- C11 ---- *)
\* the offset in the saved file of the first byte of row y
RECURSIVE RowStart(_, _)
RowStart(c, y) ==
    IF y = 0 THEN 0 ELSE RowStart(c, y - 1) + RowAt(c, y - 1).size + 1

\* file holds, in order, each row's bytes followed by one newline, and nothing else
IsSerialised(c, file) ==
    /\ Len(file) = RowStart(c, c.n_rows)
    /\ \A y \in 0..(c.n_rows - 1) :
         /\ \A j \in 1..RowAt(c, y).size :
              file[RowStart(c, y) + j] = RowAt(c, y).chars[j]
         /\ file[RowStart(c, y) + RowAt(c, y).size + 1] = LF

\* C11: after a successful save the file holds exactly each row's bytes followed
\* by one newline, in order (its length is the sum of the row sizes plus the
\* number of rows), modified is 0 and the status message reports that length.
C11_SaveWritesRows ==
    io = "ok" =>
        /\ conf.file_name \in DOMAIN disk
        /\ IsSerialised(conf, disk[conf.file_name])
        /\ conf.mod = 0
        /\ conf.stt_msg = MsgWritten(RowStart(conf, conf.n_rows))

\* a successful save that made an existing file shorter
C11_Witness ==
    /\ io = "ok"
    /\ conf.n_rows = 3
    /\ conf.file_name = FileArg
    /\ \A content \in Files : Len(disk[FileArg]) < Len(content)

(* ---- C12 ---- *)
\* the positions at which a line of the file begins
LineStarts(file) ==
    {i \in 1..Len(file) : i = 1 \/ file[i - 1] = LF}

\* the k-th (from 0) line start
NthStart(file, k) ==
    CHOOSE i \in LineStarts(file) : Cardinality({j \in LineStarts(file) : j < i}) = k

\* the line beginning at i, its '\n' excluded
LineAt(file, i) ==
    LET stops == {j \in i..Len(file) : file[j] = LF}
        e == IF stops = {} THEN Len(file)
             ELSE (CHOOSE j \in stops : \A k \in stops : j <= k) - 1
    IN  SubSeq(file, i, e)

\* s without its trailing '\n' and '\r' bytes
Stripped(s) ==
    LET keep == {j \in 1..Len(s) : s[j] # LF /\ s[j] # CR}
    IN  SubSeq(s, 1, IF keep = {} THEN 0 ELSE CHOOSE j \in keep : \A k \in keep : k <= j)

\* C12: after open of a readable file there is one row per line of the file,
\* in file order, each the line without its trailing \n and \r bytes (a last
\* line without terminator is a row, an empty file gives no rows), and
\* modified is 0.
C12_OpenOneRowPerLine ==
    pc = "refresh" =>
        LET file == disk[FileArg]
        IN  /\ conf.n_rows = Cardinality(LineStarts(file))
            /\ Len(conf.row) = conf.n_rows
            /\ \A y \in 0..(conf.n_rows - 1) :
                 /\ RowAt(conf, y).chars = Stripped(LineAt(file, NthStart(file, y)))
                 /\ RowAt(conf, y).size = Len(RowAt(conf, y).chars)
            /\ conf.mod = 0

\* a file whose first line ends in "\r\n" and whose last line has no terminator
C12_Witness ==
    /\ pc = "refresh"
    /\ conf.n_rows = 2
    /\ \E i \in 1..(Len(disk[FileArg]) - 1) :
         disk[FileArg][i] = CR /\ disk[FileArg][i + 1] = LF
    /\ disk[FileArg][Len(disk[FileArg])] # LF
    /\ RowAt(conf, 0).size < Len(LineAt(disk[FileArg], 1))

(* ---- C13 ---- *)
FatalStep == StartSizeFail \/ StartOpenFail \/ ReadFail \/ PromptReadFail

Cursor(c) == <<c.cur_x, c.cur_y>>

\* every row's size is the length of its bytes, and there are n_rows rows
SizesMatch(c) ==
    /\ Len(c.row) = c.n_rows
    /\ \A i \in 1..c.n_rows : c.row[i].size = Len(c.row[i].chars)

\* s without its byte at index at (from 0)
Without(s, at) == SubSeq(s, 1, at) \o SubSeq(s, at + 2, Len(s))

\* s with b put at index at (from 0)
With(s, at, b) == SubSeq(s, 1, at) \o <<b>> \o SubSeq(s, at + 1, Len(s))

\* rows "ab", "cd", "" then End, Enter, 'x'
C14_Scenario ==
    LET c0 == texDispRefresh(editorOpen(texDispInit(4, 4), FileArg, <<97, 98, LF, 99, 100, LF, LF>>))
        c1 == texDispRefresh(EndKey(c0))
        c2 == texDispRefresh(editorInsertNewLine(c1))
        c3 == texDispRefresh(editorInputChar(c2, 120))
    IN  /\ RowChars(c0) = << <<97, 98>>, <<99, 100>>, <<>> >>
        /\ RowChars(c3) = << <<97, 98>>, <<120>>, <<99, 100>>, <<>> >>
        /\ Cursor(c3) = <<1, 1>>

\* C14: Enter at (x, y) inserts an empty row at y when x = 0, and otherwise cuts
\* row y to its first x bytes and inserts the rest as a new row at y + 1; the
\* row count grows by one, the other rows are unchanged and the cursor becomes
\* (0, y + 1). Rows "ab", "cd", "" with End, Enter, 'x' give "ab", "x", "cd", ""
\* and the cursor at row 1, column 1.
C14_EnterSplitsRow ==
    /\ C14_Scenario
    /\ [][ KeyEnter =>
            LET x == conf.cur_x
                y == conf.cur_y
                n == conf.n_rows
                R == RowChars(conf)
            IN  /\ conf'.n_rows = n + 1
                /\ SizesMatch(conf')
                /\ RowChars(conf') =
                      IF x = 0
                      THEN SubSeq(R, 1, y) \o << <<>> >> \o SubSeq(R, y + 1, n)
                      ELSE SubSeq(R, 1, y)
                           \o << SubSeq(R[y + 1], 1, x), SubSeq(R[y + 1], x + 1, Len(R[y + 1])) >>
                           \o SubSeq(R, y + 2, n)
                /\ Cursor(conf') = <<0, y + 1>> ]_vars

\* Enter in the middle of the first of two rows, "\td" split after the tab
C14_Witness ==
    /\ pc = "refresh"
    /\ nkeys = MaxKeys
    /\ conf.n_rows = 3
    /\ RowAt(conf, 0).chars = <<TAB>>
    /\ RowAt(conf, 1).chars = <<100>>
    /\ Cursor(conf) = <<0, 1>>

BackspaceStep ==
    KeyRemove /\ \E k \in {BKSP_KEY, CTRL_H} : conf' = RemoveKey(conf, k)

\* C15: Backspace (127 or Ctrl-H) with cur_x > 0 removes the byte before the
\* cursor and moves the cursor one column left; at column 0 of a row y >= 1 it
\* appends row y to row y - 1, deletes row y and puts the cursor at (former
\* size of row y - 1, y - 1); at column 0 of the first row, or with no rows,
\* rows, cursor and modified are unchanged. (The virtual row after the last
\* one is not a row: the claim says nothing of Backspace there.)
C15_Backspace ==
    [][ BackspaceStep =>
        LET x == conf.cur_x
            y == conf.cur_y
            n == conf.n_rows
            R == RowChars(conf)
        IN  /\ SizesMatch(conf')
            /\ (n = 0 \/ (x = 0 /\ y = 0)) =>
                   /\ conf'.row = conf.row
                   /\ conf'.n_rows = n
                   /\ Cursor(conf') = Cursor(conf)
                   /\ conf'.mod = conf.mod
            /\ (y < n /\ x > 0) =>
                   /\ conf'.n_rows = n
                   /\ RowChars(conf') = [R EXCEPT ![y + 1] = Without(R[y + 1], x - 1)]
                   /\ Cursor(conf') = <<x - 1, y>>
            /\ (y < n /\ x = 0 /\ y >= 1) =>
                   /\ conf'.n_rows = n - 1
                   /\ RowChars(conf') =
                         SubSeq(R, 1, y - 1) \o << R[y] \o R[y + 1] >> \o SubSeq(R, y + 2, n)
                   /\ Cursor(conf') = <<Len(R[y]), y - 1>> ]_vars

\* "bc" and "\td" joined into one row, the cursor at the former end of "bc"
C15_Witness ==
    /\ pc = "refresh"
    /\ nkeys = MaxKeys
    /\ conf.n_rows = 1
    /\ RowAt(conf, 0).chars = <<98, 99, TAB, 100>>
    /\ Cursor(conf) = <<2, 0>>
    /\ conf.mod > 0

DeleteStep == KeyRemove /\ conf' = RemoveKey(conf, DEL_KEY)

\* C16: Delete removes the byte under the cursor, or at the end of a row that
\* is not the last joins the next row onto it, or with nothing to the right of
\* the cursor (end of the last row, virtual row) leaves the whole state
\* unchanged; in every case (cur_x, cur_y) is the same after the key.
C16_DeleteKeepsCursor ==
    [][ DeleteStep =>
        LET x == conf.cur_x
            y == conf.cur_y
            n == conf.n_rows
            R == RowChars(conf)
        IN  /\ Cursor(conf') = Cursor(conf)
            /\ (y < n /\ x < Len(R[y + 1])) =>
                   RowChars(conf') = [R EXCEPT ![y + 1] = Without(R[y + 1], x)]
            /\ (y < n - 1 /\ x = Len(R[y + 1])) =>
                   RowChars(conf') =
                     SubSeq(R, 1, y) \o << R[y + 1] \o R[y + 2] >> \o SubSeq(R, y + 3, n)
            /\ (y >= n \/ (y = n - 1 /\ x = Len(R[y + 1]))) =>
                   conf' = conf ]_vars

TypeStep(ch) == KeyDefault /\ conf' = editorInputChar(conf, ch)

\* C17: typing a non-control byte b < 128 at (x, y) with y < n puts b at index
\* x of row y, the bytes from x on moving right by one, and moves the cursor to
\* (x + 1, y); on the virtual row (y = n) one empty row is appended first, so
\* the new last row holds only b and the cursor is (1, y).
C17_TypeInsertsByte ==
    [][ \A b \in {ch \in Typed : ~iscntrl(ch) /\ ch < 128} :
          TypeStep(b) =>
            LET x == conf.cur_x
                y == conf.cur_y
                n == conf.n_rows
                R == RowChars(conf)
            IN  /\ SizesMatch(conf')
                /\ y < n =>
                     /\ conf'.n_rows = n
                     /\ RowChars(conf') = [R EXCEPT ![y + 1] = With(R[y + 1], x, b)]
                     /\ Cursor(conf') = <<x + 1, y>>
                /\ y = n =>
                     /\ conf'.n_rows = n + 1
                     /\ RowChars(conf') = R \o << <<b>> >>
                     /\ Cursor(conf') = <<1, y>> ]_vars

\* 'f' typed into the empty document
C17_Witness ==
    /\ pc = "refresh"
    /\ nkeys = MaxKeys
    /\ disk[FileArg] = <<>>
    /\ conf.n_rows = 1
    /\ RowAt(conf, 0).chars = <<102>>
    /\ Cursor(conf) = <<1, 0>>

\* C18: a key that is a control byte without a binding of its own, or a byte
\* of 128 or more, changes neither the content of a row nor the row count.
C18_ControlByteNotInserted ==
    [][ \A b \in {ch \in Typed : iscntrl(ch) \/ ch >= 128} :
          TypeStep(b) =>
            /\ conf'.n_rows = conf.n_rows
            /\ RowChars(conf') = RowChars(conf) ]_vars

\* C19: Left at (0, 0) leaves the cursor where it is; Right at the end of the
\* last row (cur_y = n - 1, cur_x = size) leaves it at cur_y = n, cur_x = 0.
C19_ArrowsAtTheEnds ==
    [][ /\ (KeyArrow /\ conf' = texNavCursor(conf, ARR_LEFT) /\ Cursor(conf) = <<0, 0>>) =>
             Cursor(conf') = <<0, 0>>
        /\ ( /\ KeyArrow
             /\ conf' = texNavCursor(conf, ARR_RIGHT)
             /\ conf.n_rows >= 1
             /\ conf.cur_y = conf.n_rows - 1
             /\ conf.cur_x = RowAt(conf, conf.cur_y).size ) =>
             Cursor(conf') = <<0, conf.n_rows>> ]_vars

\* the cursor on the virtual row of a document whose last row is not empty
C19_Witness ==
    /\ pc = "refresh"
    /\ nkeys = MaxKeys
    /\ conf.n_rows = MaxDocRows
    /\ RowAt(conf, conf.n_rows - 1).size > 0
    /\ Cursor(conf) = <<0, conf.n_rows>>

(* ---- C20 ---- *)
\* the byte sequences that follow ESC and the keys they stand for
KeyTable ==
    { << <<91, 65>>, ARR_UP >>, << <<91, 66>>, ARR_DOWN >>,
      << <<91, 68>>, ARR_LEFT >>, << <<91, 67>>, ARR_RIGHT >>,
      << <<91, 72>>, HOME_KEY >>, << <<79, 72>>, HOME_KEY >>,
      << <<91, 70>>, END_KEY >>, << <<79, 70>>, END_KEY >>,
      << <<91, 49, 126>>, HOME_KEY >>, << <<91, 55, 126>>, HOME_KEY >>,
      << <<91, 52, 126>>, END_KEY >>, << <<91, 56, 126>>, END_KEY >>,
      << <<91, 51, 126>>, DEL_KEY >>,
      << <<91, 53, 126>>, PAGE_UP >>,
      << <<91, 54, 126>>, PAGE_DOWN >> }

\* C20: each call of the decoder consumes at least one byte and returns one
\* key; when the input begins with ESC followed by one of the listed
\* sequences, the call consumes exactly that sequence and returns its key.
C20_DecoderTable ==
    [][ /\ Len(tty') < Len(tty)
        /\ tty' = SubSeq(tty, Len(tty) - Len(tty') + 1, Len(tty))
        /\ \A e \in KeyTable :
             ( /\ Len(tty) >= 1 + Len(e[1])
               /\ tty[1] = ESC
               /\ SubSeq(tty, 2, 1 + Len(e[1])) = e[1] ) =>
                 /\ keyRead' = e[2]
                 /\ Len(tty') = Len(tty) - 1 - Len(e[1]) ]_vars

\* an escape sequence decoded as Home with nothing left to read
C20_Witness ==
    /\ keyRead = HOME_KEY
    /\ tty = <<>>

(* ---- C21 ---- *)
\* inp begins with ESC followed by one of the sequences of KeyTable
Recognized(inp) ==
    /\ inp # <<>>
    /\ inp[1] = ESC
    /\ \E e \in KeyTable :
         Len(inp) >= 1 + Len(e[1]) /\ SubSeq(inp, 2, 1 + Len(e[1])) = e[1]

\* C21: when the input begins with ESC and what follows is none of the
\* recognized sequences (a follow-up read finding no byte included), the
\* decoder returns the ESC key, and processing it leaves rows, row count,
\* cursor, modified and file name unchanged.
C21_MalformedIsEsc ==
    [][ (pc = "key" /\ tty[1] = ESC /\ ~Recognized(tty)) =>
          /\ keyRead' = ESC
          /\ conf'.row = conf.row
          /\ conf'.n_rows = conf.n_rows
          /\ Cursor(conf') = Cursor(conf)
          /\ conf'.mod = conf.mod
          /\ conf'.file_name = conf.file_name ]_vars

\* "\x1bOA" read as ESC with '~' still waiting: the document is as opened
C21_Witness ==
    /\ pc = "refresh"
    /\ keyRead = ESC
    /\ tty = <<126>>
    /\ conf.n_rows = 3
    /\ conf.mod = 0
    /\ Cursor(conf) = <<0, 0>>

(* ---- C22 ---- *)
\* C22: for an input byte b other than ESC the decoder returns the key whose
\* numeric value is b, for the bytes 128..255 as for the others.
C22_ByteKeepsValue ==
    [][ (pc = "key" /\ tty # <<>> /\ tty[1] # ESC) => keyRead' = tty[1] ]_vars

(* ---- C23 ---- *)
\* the row "a\tb": "a", 7 spaces, "b", 9 columns; raw column 2 is column 8
C23_Example ==
    LET row == editorUpdateRow([size |-> 3, chars |-> <<97, TAB, 98>>,
                                ren_sz |-> 0, render |-> <<>>])
    IN  /\ row.render = <<97, SP, SP, SP, SP, SP, SP, SP, 98>>
        /\ row.ren_sz = 9
        /\ utilCur2Ren(row, 2) = 8

\* C23: for every row and every x in 0..size, utilCur2Ren(row, x) is the length
\* of the tab expansion of the first x bytes, so utilCur2Ren(row, size) is
\* ren_sz; the column the refresh computes for the cursor is that value; the
\* row "a\tb" renders as "a", 7 spaces, "b" and its raw column 2 is column 8.
C23_RenderColumn ==
    /\ C23_Example
    /\ \A y \in 0..(conf.n_rows - 1) :
         LET row == RowAt(conf, y)
         IN  /\ \A x \in 0..row.size :
                  utilCur2Ren(row, x) = Len(TabExpand(SubSeq(row.chars, 1, x)))
             /\ utilCur2Ren(row, row.size) = row.ren_sz
    /\ (pc = "key" /\ conf.cur_y < conf.n_rows) =>
         conf.ren_x = Len(TabExpand(SubSeq(RowAt(conf, conf.cur_y).chars, 1, conf.cur_x)))

\* the cursor just past a tab typed into "bc": raw column 2, render column 8
C23_Witness ==
    /\ pc = "key"
    /\ conf.cur_y < conf.n_rows
    /\ RowAt(conf, conf.cur_y).chars = <<98, TAB, 99>>
    /\ conf.cur_x = 2
    /\ conf.ren_x = 8

(* ---- C24 ---- *)
\* C24: a step that changes the rows, other than the open at start, increases
\* modified, and modified increases only in such a step; modified decreases
\* only to 0 and only in a step that saves successfully. Hence modified is 0
\* exactly when no row mutation has happened since the last successful open
\* or save, and the rows are then those loaded or saved.
C24_ModifiedTracksMutations ==
    [][ /\ conf.mod >= 0
        /\ (pc # "start" /\ RowChars(conf') # RowChars(conf)) => conf'.mod > conf.mod
        /\ conf'.mod > conf.mod => RowChars(conf') # RowChars(conf)
        /\ pc = "start" => conf'.mod = 0
        /\ conf'.mod < conf.mod =>
             /\ conf'.mod = 0
             /\ io' = "ok"
             /\ RowChars(conf') = RowChars(conf) ]_vars

\* an edited document just saved: modified is 0 again
C24_Witness ==
    /\ io = "ok"
    /\ conf.mod = 0
    /\ conf.file_name = FileArg
    /\ disk[FileArg] \notin Files
    /\ nkeys >= 2

(* ---- C25 ---- *)
\* a step of the main loop that composes a frame
RefreshStep == pc = "refresh" /\ pc' = "key"

\* C25: in every frame composed the offsets recomputed before compositing
\* satisfy off_row <= cur_y < off_row + dispRows and off_col <= ren_x <
\* off_col + dispCols, ren_x being the render column of the cursor (0 on the
\* virtual row), and the cursor-position sequence of the frame carries
\* (cur_y - off_row + 1, ren_x - off_col + 1), inside [1, dispRows] x [1, dispCols].
C25_FrameCursorInWindow ==
    [][ RefreshStep =>
        /\ conf'.dispRows >= 1 /\ conf'.dispCols >= 1
        /\ conf'.ren_x = RenX(conf')
        /\ conf'.off_row <= conf'.cur_y /\ conf'.cur_y < conf'.off_row + conf'.dispRows
        /\ conf'.off_col <= conf'.ren_x /\ conf'.ren_x < conf'.off_col + conf'.dispCols
        /\ \A fresh \in BOOLEAN :
             LET frame == texDispRefreshWrites(conf, fresh)[1]
             IN  \A k \in 1..Len(frame) :
                   frame[k].seq = CursorPosition(0, 0).seq =>
                     /\ frame[k].arg = <<conf'.cur_y - conf'.off_row + 1,
                                         conf'.ren_x - conf'.off_col + 1>>
                     /\ frame[k].arg[1] \in 1..conf'.dispRows
                     /\ frame[k].arg[2] \in 1..conf'.dispCols ]_vars

\* a frame composed with the viewport scrolled both down and right, the
\* cursor-position sequence in it
C25_Witness ==
    /\ pc = "key"
    /\ conf.off_row > 0
    /\ conf.off_col > 0
    /\ conf.cur_x > 0
    /\ \E k \in 1..Len(texDispRefreshWrites(conf, TRUE)[1]) :
         texDispRefreshWrites(conf, TRUE)[1][k].seq = CursorPosition(0, 0).seq

(* ---- C26 ---- *)
Min(a, b) == IF a < b THEN a ELSE b
Max(a, b) == IF a > b THEN a ELSE b

\* C26: Page Down leaves cur_y = min(off_row + 2 * dispRows - 2, n), the row
\* reached from min(off_row + dispRows - 1, n) by dispRows - 1 steps down;
\* Page Up leaves cur_y = max(off_row - dispRows + 1, 0), the row reached from
\* off_row by dispRows - 1 steps up; off_row is that of the last frame.
C26_PageKeys ==
    [][ /\ (KeyPage /\ conf' = PageKey(conf, PAGE_DOWN)) =>
             /\ conf.dispRows >= 1
             /\ conf'.cur_y = Min(conf.off_row + 2 * conf.dispRows - 2, conf.n_rows)
             /\ conf'.cur_y =
                  Min(Min(conf.off_row + conf.dispRows - 1, conf.n_rows) + (conf.dispRows - 1),
                      conf.n_rows)
        /\ (KeyPage /\ conf' = PageKey(conf, PAGE_UP)) =>
             /\ conf.dispRows >= 1
             /\ conf'.cur_y = Max(conf.off_row - conf.dispRows + 1, 0)
             /\ conf'.off_row = conf.off_row ]_vars

\* Page Up from the virtual row of a two-row document in a two-row window
C26_Witness ==
    /\ pc = "refresh"
    /\ nkeys = MaxKeys
    /\ conf.dispRows = 2
    /\ conf.off_row = 1
    /\ conf.cur_y = 0

(* ---- C27 ---- *)
\* C27: insertRow(at, bytes) for any integer at puts the new row at position
\* min(max(at, 0), n): the rows before it keep index and content, the rows from
\* it on move up by one, the row count grows by one, the render of the new
\* row is computed and modified is incremented.
C27_InsertRowClamps ==
    [][ \A at \in (-1)..(conf.n_rows + 1), s \in DocRows :
          (pc = "store" /\ pc' = "store_inserted" /\ conf' = editorAppendChar(conf, at, s)) =>
            LET n == conf.n_rows
                k == Min(Max(at, 0), n)
                R == RowChars(conf)
            IN  /\ conf'.n_rows = n + 1
                /\ RowChars(conf') = SubSeq(R, 1, k) \o <<s>> \o SubSeq(R, k + 1, n)
                /\ RowAt(conf', k).render = TabExpand(s)
                /\ conf'.mod = conf.mod + 1 ]_vars

(* ---- C28 ---- *)
\* C28: deleteChar(row, col) with col outside [0, size) changes nothing (chars,
\* size, render and modified stay, size is never negative); with col inside
\* it removes the byte at col, recomputes render and increments modified.
C28_DeleteCharRange ==
    [][ \A y \in 0..(conf.n_rows - 1) :
          \A col \in (-1)..(RowAt(conf, y).size + 1) :
            (pc = "store" /\ pc' = "store_deleted" /\ conf' = utilCharDel(conf, y, col)) =>
              LET row == RowAt(conf, y)
                  new == RowAt(conf', y)
              IN  /\ new.size >= 0
                  /\ (0 <= col /\ col < row.size) =>
                       /\ new.chars = Without(row.chars, col)
                       /\ new.size = row.size - 1
                       /\ new.render = TabExpand(new.chars)
                       /\ conf'.mod = conf.mod + 1
                  /\ ~(0 <= col /\ col < row.size) => conf' = conf ]_vars

(* ---- C29 ---- *)
\* frame is, in this order: cursor hide, cursor home, rows display rows each
\* followed by erase-to-end-of-line and a line break, the status bar line, the
\* message bar, the cursor position, cursor show
WellOrdered(frame, rows) ==
    LET base == 2 + 3 * rows
        L == Len(frame)
    IN  /\ L \in {base + 7, base + 8}
        /\ frame[1].seq = CursorHide.seq
        /\ frame[2].seq = CursorHome.seq
        /\ \A i \in 0..(rows - 1) :
             /\ frame[3 + 3 * i].seq \in {Text(<<>>).seq, Runaway.seq}
             /\ frame[4 + 3 * i].seq = EraseLine.seq
             /\ frame[5 + 3 * i].seq = LineBreak.seq
        /\ frame[base + 1].seq = InverseOn.seq
        /\ frame[base + 2].seq = Text(<<>>).seq
        /\ frame[base + 3].seq = InverseOff.seq
        /\ frame[base + 4].seq = LineBreak.seq
        /\ frame[base + 5].seq = EraseLine.seq
        /\ L = base + 8 => frame[base + 6].seq = "stt_msg"
        /\ frame[L - 1].seq = CursorPosition(0, 0).seq
        /\ frame[L].seq = CursorShow.seq

\* C29: every refresh writes one buffer, once, made in this order of the
\* cursor-hide and cursor-home sequences, exactly dispRows display rows each
\* followed by erase-to-end-of-line and a line break, the status bar line,
\* the message bar, the cursor-position sequence and the cursor-show sequence.
C29_FrameOrder ==
    [][ RefreshStep =>
        \A fresh \in BOOLEAN :
          LET writes == texDispRefreshWrites(conf, fresh)
          IN  /\ Len(writes) = 1
              /\ WellOrdered(writes[1], conf.dispRows) ]_vars

(* ---- C30 ---- *)
\* the name-and-version banner centred within cols columns: as many bytes
\* before it as half of what the banner leaves free, the first one a tilde
Centered(cols) ==
    LET wlcLen == IF Len(wlcMsg) > cols THEN cols ELSE Len(wlcMsg)
        before == (cols - wlcLen) \div 2
    IN  (IF before > 0 THEN <<126>> \o Spaces(before - 1) ELSE <<>>)
          \o SubSeq(wlcMsg, 1, wlcLen)

\* the bytes of document row y a window of cols columns at off_col shows
Slice(c, y) ==
    LET render == RowAt(c, y).render
    IN  [k \in 1..Min(c.dispCols, Max(0, Len(render) - c.off_col)) |->
           render[c.off_col + k]]

\* display row i of the frame written is a slice of a document row, or a tilde
C30_RowsAndTildes ==
    [][ RefreshStep =>
        \A i \in 0..(conf'.dispRows - 1) :
          LET y == conf'.off_row + i
              frame == texDispRefreshWrites(conf, TRUE)[1]
          IN  ~(conf'.n_rows = 0 /\ i = conf'.dispRows \div 3) =>
                /\ Len(frame) >= 3 + 3 * i
                /\ frame[3 + 3 * i] =
                     Text(IF y < conf'.n_rows THEN Slice(conf', y) ELSE <<126>>) ]_vars

\* C30: display row i of a frame shows the bytes render[off_col .. off_col +
\* dispCols) of document row off_row + i when that row exists (fewer if the
\* render is shorter, none if it is shorter than off_col); otherwise a single
\* tilde, except that with a document of no rows and i = dispRows / 3 it shows
\* the name-and-version banner centred within dispCols columns.
C30_DisplayRows ==
    [][ RefreshStep =>
        \A i \in 0..(conf'.dispRows - 1) :
          LET y == conf'.off_row + i
              frame == texDispRefreshWrites(conf, TRUE)[1]
          IN  /\ Len(frame) >= 3 + 3 * i
              /\ frame[3 + 3 * i] =
                   Text(IF y < conf'.n_rows THEN Slice(conf', y)
                        ELSE IF conf'.n_rows = 0 /\ i = conf'.dispRows \div 3
                             THEN Centered(conf'.dispCols)
                             ELSE <<126>>) ]_vars

\* the banner row of an empty document on 40 columns: the 31 bytes of the
\* banner after 3 bytes, where centring asks for 4
C30_OffCentre ==
    [][ (RefreshStep /\ conf'.n_rows = 0 /\ conf'.dispCols = 40) =>
        LET shown == texDispRefreshWrites(conf, TRUE)[1][3 + 3 * (conf'.dispRows \div 3)]
        IN  shown = Text(<<126, 32, 32>> \o wlcMsg) /\ shown # Text(Centered(40)) ]_vars

(* ---- C31 ---- *)
\* "[No Name]" and "(modified)"
Placeholder == <<91, 78, 111, 32, 78, 97, 109, 101, 93>>
Marker == <<40, 109, 111, 100, 105, 102, 105, 101, 100, 41>>

\* the left part of the status bar: "<name> - <n> lines <marker>"
StatusLeft(c) ==
    (IF c.file_name = NoName THEN Placeholder
     ELSE [k \in 1..Min(20, Len(c.file_name)) |-> c.file_name[k]])
    \o <<SP, 45, SP>> \o Decimal(c.n_rows) \o <<SP, 108, 105, 110, 101, 115, SP>>
    \o (IF c.mod # 0 THEN Marker ELSE <<>>)

\* the indicator "<cur_y+1>/<n>"
StatusRight(c) == Decimal(c.cur_y + 1) \o <<47>> \o Decimal(c.n_rows)

\* bar is cols bytes wide, begins with left and ends with right
IsStatusBar(bar, cols, left, right) ==
    /\ Len(bar) = cols
    /\ Len(left) <= cols /\ SubSeq(bar, 1, Len(left)) = left
    /\ Len(right) <= cols /\ SubSeq(bar, cols - Len(right) + 1, cols) = right

\* the tokens of the frame between inverse-video on and inverse-video off
Inverse(frame) ==
    {k \in 1..Len(frame) : frame[k].seq = InverseOn.seq}

\* C31: in every frame the status bar is exactly dispCols bytes wide between
\* the inverse-video on and off sequences, with the file name cut to 20 bytes
\* (or the placeholder), the row count and "(modified)" exactly when modified
\* is not 0 on the left, and the indicator "<cur_y+1>/<n>" ending at the right
\* edge.
C31_StatusBar ==
    [][ RefreshStep =>
        LET frame == texDispRefreshWrites(conf, TRUE)[1]
        IN  /\ Cardinality(Inverse(frame)) = 1
            /\ \A k \in Inverse(frame) :
                 /\ Len(frame) >= k + 2
                 /\ frame[k + 1].seq = Text(<<>>).seq
                 /\ frame[k + 2].seq = InverseOff.seq
                 /\ IsStatusBar(frame[k + 1].arg, conf'.dispCols,
                                StatusLeft(conf'), StatusRight(conf')) ]_vars

\* on 40 columns every frame has the status bar as claimed
C31_WideStatusBar ==
    [][ (RefreshStep /\ conf'.dispCols = 40) =>
        LET frame == texDispRefreshWrites(conf, TRUE)[1]
        IN  /\ Cardinality(Inverse(frame)) = 1
            /\ \A k \in Inverse(frame) :
                 /\ frame[k + 2].seq = InverseOff.seq
                 /\ IsStatusBar(frame[k + 1].arg, 40,
                                StatusLeft(conf'), StatusRight(conf')) ]_vars

\* on 4 columns with a document of rows the status bar is the first 4 bytes
\* of the left part, without the indicator
C31_NarrowStatusBar ==
    [][ (RefreshStep /\ conf'.dispCols = 4 /\ conf'.n_rows > 0) =>
        LET frame == texDispRefreshWrites(conf, TRUE)[1]
        IN  \A k \in Inverse(frame) :
              frame[k + 1].arg = SubSeq(StatusLeft(conf'), 1, 4) ]_vars

(* ---- C32 ---- *)
\* the message bar of frame: what follows the erase-to-end-of-line after the
\* status bar, up to the cursor position
MessageBar(frame) ==
    LET off == CHOOSE k \in 1..Len(frame) : frame[k].seq = InverseOff.seq
        cup == CHOOSE k \in 1..Len(frame) : frame[k].seq = CursorPosition(0, 0).seq
    IN  SubSeq(frame, off + 3, cup - 1)

HasMessageBar(frame) ==
    /\ \E k \in 1..Len(frame) : frame[k].seq = InverseOff.seq
    /\ \E k \in 1..Len(frame) : frame[k].seq = CursorPosition(0, 0).seq

\* the frame written at this step, composed at second now
FrameNow == texDispRefreshWrites(conf, IsFresh(conf))[1]

\* C32: every frame composed fewer than 5 seconds after a non-empty status
\* message was set shows that message, cut to dispCols, in the message bar, and
\* every frame composed 5 or more seconds after it was set shows a blank
\* message bar.
C32_MessageFiveSeconds ==
    [][ (RefreshStep /\ conf.stt_msg # MsgNone) =>
        /\ HasMessageBar(FrameNow)
        /\ now - conf.msg_time < 5 =>
             MessageBar(FrameNow) = <<Tok("stt_msg", <<conf.stt_msg, conf.dispCols>>)>>
        /\ now - conf.msg_time >= 5 => MessageBar(FrameNow) = <<>> ]_vars

\* the same of the frames that have a message bar
C32_CompleteFrames ==
    [][ (RefreshStep /\ conf.stt_msg # MsgNone /\ HasMessageBar(FrameNow)) =>
        /\ now - conf.msg_time < 5 =>
             MessageBar(FrameNow) = <<Tok("stt_msg", <<conf.stt_msg, conf.dispCols>>)>>
        /\ now - conf.msg_time >= 5 => MessageBar(FrameNow) = <<>> ]_vars

\* a warning set at second 2 and a frame composed at second 6, after a frame
\* that showed it
C32_Seen ==
    /\ pc = "key"
    /\ conf.stt_msg = MsgWarn(FORCE_QUIT)
    /\ conf.msg_time = 2
    /\ now = 6
    /\ conf.dispCols = 40

(* ---- C33 ---- *)
\* a turn of the prompt loop: a key was read in texUserPrompt
PromptTurn == pc = "prompt_key" /\ tty' # tty

\* what the claim has a turn on key k do, k being neither Enter nor ESC
PromptKept(buf, k) ==
    IF k \in {BKSP_KEY, CTRL_H, DEL_KEY}
    THEN (IF buf = <<>> THEN buf ELSE SubSeq(buf, 1, Len(buf) - 1))
    ELSE IF 0 <= k /\ k < 128 /\ ~iscntrl(k) THEN Append(buf, k)
    ELSE buf

\* the turn on the key read at this step goes as the claim has it
PromptAsClaimed ==
    /\ keyRead' \notin {ENTER, ESC} =>
         /\ pc' = "prompt_refresh"
         /\ buffer' = PromptKept(buffer, keyRead')
    /\ pc' = "prompt_refresh" =>
         /\ conf'.row = conf.row /\ conf'.n_rows = conf.n_rows
         /\ Cursor(conf') = Cursor(conf)
         /\ conf'.mod = conf.mod
    /\ pc' # "prompt_refresh" =>
         /\ pc' = "refresh"
         /\ keyRead' = ESC \/ (keyRead' = ENTER /\ buffer # <<>>)
         /\ keyRead' = ESC => conf'.file_name = NoName
         /\ keyRead' = ENTER => conf'.file_name = buffer /\ conf'.file_name # <<>>
    /\ (keyRead' = ENTER /\ buffer = <<>>) => pc' = "prompt_refresh" /\ buffer' = <<>>
    /\ keyRead' = ESC => pc' = "refresh"

\* C33: while the save-as prompt is active a frame is rendered before every
\* key read; every key other than Enter and ESC keeps the prompt active (a
\* non-control byte under 128 is appended to the input, Backspace, Ctrl-H and
\* Delete remove its last byte, any other key is ignored) and rows, cursor and
\* modified are unchanged; the prompt returns only on ESC or on Enter with a
\* non-empty input, so a committed file name is never empty.
C33_Prompt ==
    [][ /\ pc' = "prompt_key" => pc = "prompt_refresh"
        /\ PromptTurn => PromptAsClaimed ]_vars

\* the same of the turns whose key is not negative
C33_KeysFromZero ==
    [][ /\ pc' = "prompt_key" => pc = "prompt_refresh"
        /\ (PromptTurn /\ keyRead' >= 0) => PromptAsClaimed ]_vars

(* ---- C34 ---- *)
\* an arrow key was processed and left what texNavCursor(key) leaves
ArrowStep(key) == KeyArrow /\ conf' = texNavCursor(conf, key)

\* the size of row y, 0 for the virtual row
SizeAt(c, y) == IF y < c.n_rows THEN RowAt(c, y).size ELSE 0

\* C34: Left at column 0 of a row y >= 1 moves to the end of row y - 1; Right
\* at the end of a row y < n moves to (0, y + 1); Right and Down on the virtual
\* row and Up on row 0 change nothing; after Up or Down cur_x is the smaller of
\* the previous cur_x and the size of the new row, 0 on the virtual row.
C34_ArrowsWrapAndClamp ==
    [][ LET x == conf.cur_x
            y == conf.cur_y
            n == conf.n_rows
        IN  /\ (ArrowStep(ARR_LEFT) /\ x = 0 /\ y >= 1) =>
                  Cursor(conf') = <<SizeAt(conf, y - 1), y - 1>>
            /\ (ArrowStep(ARR_RIGHT) /\ y < n /\ x = SizeAt(conf, y)) =>
                  Cursor(conf') = <<0, y + 1>>
            /\ (ArrowStep(ARR_RIGHT) /\ y >= n) => conf' = conf
            /\ (ArrowStep(ARR_DOWN) /\ y >= n) => conf' = conf
            /\ (ArrowStep(ARR_UP) /\ y = 0) => conf' = conf
            /\ (ArrowStep(ARR_UP) /\ y > 0) =>
                  Cursor(conf') = <<Min(x, SizeAt(conf, y - 1)), y - 1>>
            /\ (ArrowStep(ARR_DOWN) /\ y < n) =>
                  Cursor(conf') = <<Min(x, SizeAt(conf, y + 1)), y + 1>>
            /\ \A key \in ArrowKeys : ArrowStep(key) =>
                  [conf' EXCEPT !.cur_x = x, !.cur_y = y] = conf ]_vars

\* after the last key the cursor is at the end of a first row that is shorter
\* than the second: where Up from the end of the second row leaves it
C34_Witness ==
    /\ pc = "refresh"
    /\ nkeys = MaxKeys
    /\ conf.n_rows = 2
    /\ SizeAt(conf, 0) < SizeAt(conf, 1)
    /\ SizeAt(conf, 0) > 0
    /\ Cursor(conf) = <<SizeAt(conf, 0), 0>>
    /\ conf.mod = 0

(* ---- C35 ---- *)
Abs(a) == IF a < 0 THEN 0 - a ELSE a

\* the offset the claim has the recomputation leave: off when at is inside the
\* window of len positions starting at off, else the nearest offset whose
\* window holds at
Scrolled(off, at, len) ==
    IF at < off THEN at
    ELSE IF at >= off + len THEN at - len + 1
    ELSE off

\* no offset from 0 on whose window of len positions holds at is nearer to off
\* than new is
Nearest(new, off, at, len) ==
    /\ new <= at /\ at < new + len
    /\ \A o \in 0..at : (at < o + len) => Abs(new - off) <= Abs(o - off)

\* C35: the viewport recomputation changes off_row (off_col) only when cur_y
\* (ren_x) lies outside the current window, and then by the smallest amount
\* that brings it inside: to cur_y when above, to cur_y - dispRows + 1 when
\* below, likewise for columns; with the cursor visible both offsets are
\* unchanged; neither offset ever becomes negative.
C35_MinimalScroll ==
    [][ RefreshStep =>
        /\ conf'.off_row = Scrolled(conf.off_row, conf.cur_y, conf.dispRows)
        /\ conf'.off_col = Scrolled(conf.off_col, RenX(conf), conf.dispCols)
        /\ Nearest(conf'.off_row, conf.off_row, conf.cur_y, conf.dispRows)
        /\ Nearest(conf'.off_col, conf.off_col, RenX(conf), conf.dispCols)
        /\ CursorVisible(conf) =>
             (conf'.off_row = conf.off_row /\ conf'.off_col = conf.off_col)
        /\ conf'.off_row >= 0 /\ conf'.off_col >= 0 ]_vars

\* after the last key and the refresh that followed it, a window of one row and
\* four columns has been brought to the cursor at the end of the row "\td":
\* one row down and six columns to the right
C35_Witness ==
    /\ pc = "key"
    /\ nkeys = MaxKeys
    /\ conf.dispRows = 1 /\ conf.dispCols = 4
    /\ Cursor(conf) = <<2, 1>>
    /\ RowAt(conf, 1).chars = <<TAB, 100>>
    /\ conf.off_row = 1
    /\ conf.off_col = 6

(* ---- C36 ---- *)
\* C36: processing an arrow key, Page Up, Page Down, Home, End, ESC or Ctrl-L
\* never changes any row's chars or render, the row count, modified or the file
\* name: of conf only the cursor may change (the viewport offsets follow at the
\* next refresh).
C36_NavigationKeepsDocument ==
    [][ (KeyArrow \/ KeyPage \/ KeyHome \/ KeyEnd \/ KeyNoop) =>
        /\ conf'.row = conf.row
        /\ conf'.n_rows = conf.n_rows
        /\ conf'.mod = conf.mod
        /\ conf'.file_name = conf.file_name
        /\ [conf' EXCEPT !.cur_x = conf.cur_x, !.cur_y = conf.cur_y] = conf ]_vars

\* the last key has taken the cursor above a window that was scrolled down, on
\* the document as it was opened
C36_Witness ==
    /\ pc = "refresh"
    /\ nkeys = MaxKeys
    /\ conf.off_row = 1
    /\ conf.cur_y = 0
    /\ conf.n_rows = 2
    /\ conf.mod = 0
    /\ conf.file_name = FileArg

(* ---- C37 ---- *)
\* Enter was processed
EnterStep == KeyEnter /\ conf' = editorInsertNewLine(conf)

\* conf after the refresh that follows this step and Backspace after it
ThenBackspace == RemoveKey(texDispRefresh(conf'), BKSP_KEY)

\* C37: from every state whose cursor is on an existing row (cur_y < n),
\* processing Enter and then Backspace restores every row's content, the row
\* count and the cursor position exactly, modified only having grown; both for
\* cur_x = 0 and for cur_x > 0.
C37_EnterBackspace ==
    [][ (EnterStep /\ conf.cur_y < conf.n_rows) =>
        /\ ThenBackspace.row = conf.row
        /\ ThenBackspace.n_rows = conf.n_rows
        /\ Cursor(ThenBackspace) = Cursor(conf)
        /\ ThenBackspace.mod > conf.mod
        /\ ThenBackspace.file_name = conf.file_name ]_vars

\* Enter in the middle of the row "bc" and Backspace after it: the document is
\* as it was opened, after three modifications
C37_Witness ==
    /\ pc = "refresh"
    /\ nkeys = MaxKeys
    /\ conf.mod = 3
    /\ conf.n_rows = 2
    /\ RowAt(conf, 1).chars = <<98, 99>>
    /\ Cursor(conf) = <<1, 1>>
    /\ utilRow2Str(conf) = disk[FileArg]

\* the same with the cursor at column 0
C37_WitnessColumn0 ==
    /\ pc = "refresh"
    /\ nkeys = MaxKeys
    /\ conf.mod = 3
    /\ conf.n_rows = 2
    /\ Cursor(conf) = <<0, 1>>
    /\ utilRow2Str(conf) = disk[FileArg]

(* ---- C38 ---- *)
\* C38: under key dispatch the document never becomes empty again once it
\* holds a row: every key preserves n >= 1, the first row is never deleted, so
\* the empty document and its banner are reachable only before the first row
\* is created.
C38_NeverEmptyAgain ==
    [][ conf.n_rows >= 1 =>
        /\ conf'.n_rows >= 1
        /\ Len(conf'.row) = conf'.n_rows
        /\ \A i \in 0..(conf'.dispRows - 1) : DisplayRow(conf', i) # Banner(conf') ]_vars

\* the rows "a" and "bc" were joined by Backspace into the only row left, and
\* the last key has taken the cursor to its start
C38_Witness ==
    /\ pc = "refresh"
    /\ nkeys = MaxKeys
    /\ conf.n_rows = 1
    /\ RowAt(conf, 0).chars = <<97, 98, 99>>
    /\ Cursor(conf) = <<0, 0>>
    /\ conf.mod = 2

(* ---- C39 ---- *)
\* C39: composing a frame for an empty document terminates, and the banner row
\* emits at most dispCols bytes before its erase-to-end-of-line sequence, for
\* every terminal width dispCols >= 1, widths smaller than the banner text and
\* widths that exceed it by 3 columns or fewer included.
C39_BannerTerminates ==
    [][ (RefreshStep /\ conf.n_rows = 0) =>
        LET frame == texDispRefreshWrites(conf, TRUE)[1]
            k == 3 + 3 * (conf.dispRows \div 3)
        IN  /\ Len(frame) > k
            /\ frame[k].seq = Text(<<>>).seq
            /\ Len(frame[k].arg) <= conf.dispCols
            /\ frame[k + 1].seq = EraseLine.seq
            /\ frame[Len(frame)].seq = CursorShow.seq ]_vars

\* the banner row of the empty document as texDrawLine composes it on cols
\* columns
BannerOn(cols) == Banner([conf EXCEPT !.dispCols = cols])

\* the padding loop runs away on every width below 35 and on no width from 35
\* to 40, where the row has the 31 bytes of the banner after one byte fewer
\* than half of what the banner leaves free
C39_RunawayWidths ==
    [][ (RefreshStep /\ conf.n_rows = 0) =>
        \A cols \in 1..40 :
          IF cols < 35 THEN BannerOn(cols) = Runaway
          ELSE /\ BannerOn(cols).seq = Text(<<>>).seq
               /\ Len(BannerOn(cols).arg) = 31 + ((cols - 31) \div 2) - 1 ]_vars

(* ---- C40 ---- *)
\* C40: once a file name is set, by opening a file or by committing the save-as
\* prompt, it never changes and no later save prompts for a name again, even
\* when the save that obtained the name failed with an I/O error; while no name
\* is set, every save starts with the prompt.
C40_FileNameIsKept ==
    [][ /\ conf.file_name # NoName =>
             /\ conf'.file_name = conf.file_name
             /\ pc' \notin {"prompt_refresh", "prompt_key"}
        /\ PromptCommit => (conf'.file_name = buffer /\ buffer # NoName)
        /\ (pc = "start" /\ pc' = "refresh" /\ FileArg \in DOMAIN disk) =>
             conf'.file_name = FileArg
        /\ ((KeySaveNamed \/ KeySavePrompt) /\ conf.file_name = NoName) =>
             (pc' = "prompt_refresh" /\ disk' = disk) ]_vars

\* the save that committed the name "f" could not open the file, and neither
\* could the save after it, which did not prompt
C40_Witness ==
    /\ pc = "refresh"
    /\ nkeys = MaxKeys
    /\ MaxKeys >= 4
    /\ conf.file_name = <<102>>
    /\ io = "open_failed"
    /\ disk = << >>
    /\ conf.n_rows = 0

====
